---- MODULE Spec2Model ----
(***************************************************************************)
(* Bound-action dispatcher of the performance service                      *)
(* (registerBoundAction and its seven registrations), run against a record *)
(* store that executes one SELECT or one UPDATE at a time.                 *)
(*                                                                         *)
(* A handler is split exactly at its awaits: the store executes the first  *)
(* SELECT (Fetch), the handler resumes and runs the guard and buildChanges *)
(* without interruption (Guard), the store executes the UPDATE (Update),   *)
(* the store executes the second SELECT and the handler returns (Reread).  *)
(* Steps of different requests interleave freely.                          *)
(*                                                                         *)
(* Tables are independent of one another (a handler only touches the       *)
(* entity set it is registered on), so a behaviour starts with one stored  *)
(* row, "r1", in one of the three tables; the other tables are empty and   *)
(* serve the requests that address a record that does not exist.           *)
(*                                                                         *)
(* Spec is the dispatcher. CrudSpec is CREATE, UPDATE and READ on Tickets   *)
(* (ticket code, required fields, structured fields) and on an entity of   *)
(* JSON_ARRAY_ENTITIES (Projects). AuthSpec is the authenticate action.     *)
(* DraftSpec follows one ImputationPeriod from DRAFT over further requests, *)
(* SeqSpec takes the dispatcher's requests one after the other, FailSpec    *)
(* lets store calls fail and assumes that every call is answered, and       *)
(* SeqCrudSpec takes the creates of Tickets one after the other, and        *)
(* TicketSpec lets time pass between the steps of the requests on Tickets.  *)
(***************************************************************************)
EXTENDS Integers, Sequences, FiniteSets, TLC

\* ---------------------------------------------------------------- bounds
\* Number of requests dispatched in one behaviour (all of them may overlap).
MaxReq == 2
\* Number of CREATE, UPDATE and READ requests in one behaviour.
MaxCrud == 2

\* ------------------------------------------------------------ vocabulary
\* JavaScript null (a column holding NULL, an id that is not given).
Null == "null"
\* JavaScript undefined (a request parameter that was not sent).
Absent == "undefined"
\* A DateTime column holding NULL.
NoTime == 0

Statuses == {"DRAFT", "SUBMITTED", "VALIDATED", "REJECTED"}
EntitySets == {"Imputations", "ImputationPeriods", "TimeLogs"}
\* Record identifiers a request can address.
Ids == {"r1"}
Actors == {"mgr1"}
Slots == 1..MaxReq
CrudSlots == 1..MaxCrud
\* Entity sets served by the generic provider, with before and after hooks.
RecordSets == {"Tickets", "Projects", "Users"}

VARIABLES
  store,        \* entity set -> set of rows
  clock,        \* the instant the next nowIso() call returns
  reqs,         \* request number -> its handler's state (pc = "idle": not yet sent)
  lastGuarded,  \* entity set -> history: the guarded update applied last
  tables,       \* Tickets, Projects, Users: entity set -> set of rows
  crud          \* request number -> state of a CREATE, UPDATE, READ or authenticate

vars == <<store, clock, reqs, lastGuarded, tables, crud>>

\* ---------------------------------------------------------------- schema
NewImputation(id, st) ==
  [ID |-> id, periodKey |-> "2026-W45", validationStatus |-> st,
   validatedBy |-> Null, validatedAt |-> NoTime]

NewImputationPeriod(id, st) ==
  [ID |-> id, periodKey |-> "2026-W45", status |-> st, submittedAt |-> NoTime,
   validatedBy |-> Null, validatedAt |-> NoTime,
   sentToStraTIME |-> FALSE, sentBy |-> Null, sentAt |-> NoTime]

NewTimeLog(id) ==
  [ID |-> id, sentToStraTIME |-> FALSE, sentAt |-> NoTime]

\* ------------------------------------------------------- transition tables
\* Mutant: a rejected imputation can be rejected again.
IMPUTATION_TRANSITIONS_REREJECT ==
  [validate |-> [from |-> {"DRAFT", "SUBMITTED", "REJECTED"}, to |-> "VALIDATED"],
   reject   |-> [from |-> {"DRAFT", "SUBMITTED", "REJECTED"}, to |-> "REJECTED"]]

IMPUTATION_TRANSITIONS ==
  [validate |-> [from |-> {"DRAFT", "SUBMITTED", "REJECTED"}, to |-> "VALIDATED"],
   reject   |-> [from |-> {"DRAFT", "SUBMITTED"},             to |-> "REJECTED"]]

\* Mutant: submit is also allowed from VALIDATED.
PERIOD_TRANSITIONS_REOPEN ==
  [submit   |-> [from |-> {"DRAFT", "REJECTED", "VALIDATED"}, to |-> "SUBMITTED"],
   validate |-> [from |-> {"SUBMITTED"},         to |-> "VALIDATED"],
   reject   |-> [from |-> {"SUBMITTED"},         to |-> "REJECTED"]]

\* Mutant: a period can be validated without having been submitted.
PERIOD_TRANSITIONS_SKIP ==
  [submit   |-> [from |-> {"DRAFT", "REJECTED"},  to |-> "SUBMITTED"],
   validate |-> [from |-> {"DRAFT", "SUBMITTED"}, to |-> "VALIDATED"],
   reject   |-> [from |-> {"SUBMITTED"},          to |-> "REJECTED"]]

PERIOD_TRANSITIONS ==
  [submit   |-> [from |-> {"DRAFT", "REJECTED"}, to |-> "SUBMITTED"],
   validate |-> [from |-> {"SUBMITTED"},         to |-> "VALIDATED"],
   reject   |-> [from |-> {"SUBMITTED"},         to |-> "REJECTED"]]

\* transitions: null
NoTransitions == [a \in {} |-> Null]

\* Mutant: the service of the earlier revision, where validate and reject are
\* declared at service level and no action is bound to an entity.
ServiceActionsUnbound ==
  {[name |-> "validate", on |-> "service"], [name |-> "reject", on |-> "service"]}

\* The actions the service definition declares, each with the entity it is
\* bound to ("service" for an unbound action).
ServiceActions ==
  {[name |-> "validate", on |-> "Imputations"],
   [name |-> "reject", on |-> "Imputations"],
   [name |-> "submit", on |-> "ImputationPeriods"],
   [name |-> "validate", on |-> "ImputationPeriods"],
   [name |-> "reject", on |-> "ImputationPeriods"],
   [name |-> "sendToStraTIME", on |-> "ImputationPeriods"],
   [name |-> "sendToStraTIME", on |-> "TimeLogs"],
   [name |-> "authenticate", on |-> "service"]}

\* The seven registerBoundAction calls: <<action, entitySetName>>.
Registrations ==
  {<<"validate", "Imputations">>, <<"reject", "Imputations">>,
   <<"submit", "ImputationPeriods">>, <<"validate", "ImputationPeriods">>,
   <<"reject", "ImputationPeriods">>, <<"sendToStraTIME", "ImputationPeriods">>,
   <<"sendToStraTIME", "TimeLogs">>}

statusField(entitySetName) ==
  CASE entitySetName = "Imputations"       -> "validationStatus"
    [] entitySetName = "ImputationPeriods" -> "status"
    [] OTHER                               -> Null

\* Mutant: sendToStraTIME on a period is registered with a rule of its own
\* (only a VALIDATED period can be sent).
transitionsSendGuarded(action, entitySetName) ==
  CASE entitySetName = "Imputations" -> IMPUTATION_TRANSITIONS
    [] entitySetName = "ImputationPeriods" ->
         [a \in {"submit", "validate", "reject", "sendToStraTIME"} |->
            IF a = "sendToStraTIME"
              THEN [from |-> {"VALIDATED"}, to |-> "VALIDATED"]
              ELSE PERIOD_TRANSITIONS[a]]
    [] OTHER -> NoTransitions

transitions(action, entitySetName) ==
  CASE entitySetName = "Imputations" -> IMPUTATION_TRANSITIONS
    [] entitySetName = "ImputationPeriods" /\ action # "sendToStraTIME"
                                       -> PERIOD_TRANSITIONS
    [] OTHER -> NoTransitions

\* Whether the registration carries a rule for its own action.
HasRule(action, entitySetName) ==
  action \in DOMAIN transitions(action, entitySetName)

Rule(action, entitySetName) == transitions(action, entitySetName)[action]

\* ------------------------------------------------------------ buildChanges
\* new Date().toISOString(): instants grow from one call to the next, see Guard.
nowIso == clock

\* Mutant: the value is stored as given.
AsGiven(x) == x

\* x || null
OrNull(x) == IF x = Absent THEN Null ELSE x

\* buildChanges(req, current) of the registration.
\* The change-sets with another status written by reject on a period.
buildChangesRejectingTo(action, entitySetName, actor, rejected) ==
  CASE entitySetName = "Imputations" /\ action = "validate" ->
         [validationStatus |-> "VALIDATED", validatedBy |-> OrNull(actor),
          validatedAt |-> nowIso]
    [] entitySetName = "Imputations" /\ action = "reject" ->
         [validationStatus |-> "REJECTED", validatedBy |-> OrNull(actor),
          validatedAt |-> nowIso]
    [] entitySetName = "ImputationPeriods" /\ action = "submit" ->
         [status |-> "SUBMITTED", submittedAt |-> nowIso]
    [] entitySetName = "ImputationPeriods" /\ action = "validate" ->
         [status |-> "VALIDATED", validatedBy |-> actor, validatedAt |-> nowIso]
    [] entitySetName = "ImputationPeriods" /\ action = "reject" ->
         [status |-> rejected, validatedBy |-> actor, validatedAt |-> nowIso]
    [] entitySetName = "ImputationPeriods" /\ action = "sendToStraTIME" ->
         [sentToStraTIME |-> TRUE, sentBy |-> actor, sentAt |-> nowIso]
    [] OTHER ->
         [sentToStraTIME |-> TRUE, sentAt |-> nowIso]

\* Mutant: rejecting a period hands it back to its author as a draft.
buildChangesRejectToDraft(action, entitySetName, actor) ==
  buildChangesRejectingTo(action, entitySetName, actor, "DRAFT")

\* Mutant: rejecting a period writes a status of its own.
buildChangesRejectToCancelled(action, entitySetName, actor) ==
  buildChangesRejectingTo(action, entitySetName, actor, "CANCELLED")

buildChanges(action, entitySetName, actor) ==
  CASE entitySetName = "Imputations" /\ action = "validate" ->
         [validationStatus |-> "VALIDATED", validatedBy |-> OrNull(actor),
          validatedAt |-> nowIso]
    [] entitySetName = "Imputations" /\ action = "reject" ->
         [validationStatus |-> "REJECTED", validatedBy |-> OrNull(actor),
          validatedAt |-> nowIso]
    [] entitySetName = "ImputationPeriods" /\ action = "submit" ->
         [status |-> "SUBMITTED", submittedAt |-> nowIso]
    [] entitySetName = "ImputationPeriods" /\ action = "validate" ->
         [status |-> "VALIDATED", validatedBy |-> actor, validatedAt |-> nowIso]
    [] entitySetName = "ImputationPeriods" /\ action = "reject" ->
         [status |-> "REJECTED", validatedBy |-> actor, validatedAt |-> nowIso]
    [] entitySetName = "ImputationPeriods" /\ action = "sendToStraTIME" ->
         [sentToStraTIME |-> TRUE, sentBy |-> actor, sentAt |-> nowIso]
    [] OTHER ->
         [sentToStraTIME |-> TRUE, sentAt |-> nowIso]

\* ----------------------------------------------------------------- store
\* SELECT.one(EntitySet).where({ ID: id }): the matching rows (none or one).
SelectOne(entitySetName, id) == {row \in store[entitySetName] : row.ID = id}

\* What the handler reads of the SELECT.one result: whether there is a row, and
\* its status column (current[statusField]); no other column of `current` is used.
Current(entitySetName, rows) ==
  {[ID |-> row.ID,
    st |-> IF statusField(entitySetName) = Null THEN Null
           ELSE row[statusField(entitySetName)]] : row \in rows}

\* The row of a non-empty SELECT.one result.
Row(rows) == CHOOSE row \in rows : TRUE

\* Mutant: only the status column of the change-set is written.
WithStatusOnly(row, changes) ==
  [f \in DOMAIN row |->
     IF f \in DOMAIN changes /\ f \in {"validationStatus", "status"}
       THEN changes[f] ELSE row[f]]

\* Mutant: the UPDATE replaces the row; a flag the change-set leaves out falls
\* back to its default.
WithChangesReplacing(row, changes) ==
  [f \in DOMAIN row |->
     IF f \in DOMAIN changes THEN changes[f]
     ELSE IF f = "sentToStraTIME" THEN FALSE ELSE row[f]]

\* Mutant: a sentAt that is already set is kept.
WithChangesKeepSentAt(row, changes) ==
  [f \in DOMAIN row |->
     IF f \in DOMAIN changes /\ ~(f = "sentAt" /\ row[f] # NoTime)
       THEN changes[f] ELSE row[f]]

\* Mutant: an UPDATE that does not list the validation columns clears them.
WithChangesClearingValidation(row, changes) ==
  [f \in DOMAIN row |->
     IF f \in DOMAIN changes THEN changes[f]
     ELSE IF f = "validatedBy" THEN Null
     ELSE IF f = "validatedAt" THEN NoTime
     ELSE row[f]]

\* One row with the change-set's columns overwritten.
WithChanges(row, changes) ==
  [f \in DOMAIN row |-> IF f \in DOMAIN changes THEN changes[f] ELSE row[f]]

\* UPDATE(EntitySet).where({ ID: id }).with(changes): the table afterwards.
UpdateWhere(entitySetName, id, changes) ==
  {IF row.ID = id THEN WithChanges(row, changes) ELSE row :
     row \in store[entitySetName]}

\* --------------------------------------------------------------- requests
NoChanges == [f \in {} |-> Null]

IdleReq ==
  [pc |-> "idle", action |-> Null, entitySetName |-> Null, id |-> Null,
   actor |-> Absent, current |-> {}, changes |-> NoChanges, at |-> NoTime,
   code |-> 0, result |-> {}, calls |-> <<>>]

NoCall == [slot |-> 0, action |-> Null, actor |-> Absent, at |-> NoTime,
           changes |-> NoChanges]

\* const extractEntityId = (req) => req.params?.[0]?.ID ?? req.params?.[0]
extractEntityId(params) == params

\* req.data of a request: validate and reject on Imputations take an optional
\* actor (validatedBy || null); the ImputationPeriods actions that take one are
\* sent with it; submit and the TimeLogs action are declared without parameter.
ActorInputs(action, entitySetName) ==
  CASE action = "submit" \/ entitySetName = "TimeLogs" -> {Absent}
    [] entitySetName = "Imputations"                    -> Actors \cup {Absent}
    [] OTHER                                            -> Actors

NoData == [f \in {} |-> Null]

IdleCrud ==
  [pc |-> "idle", op |-> Null, entity |-> Null, id |-> 0, given |-> NoData,
   data |-> NoData, errors |-> FALSE, count |-> 0, code |-> 0, message |-> Null, result |-> {}, calls |-> <<>>]

NoRows == [x \in RecordSets |-> {}]

Init ==
  /\ tables = NoRows
  /\ crud = [s \in CrudSlots |-> IdleCrud]
  /\ \E e \in EntitySets, st \in Statuses :
       store = [x \in EntitySets |->
                  IF x # e THEN {}
                  ELSE CASE e = "Imputations"       -> {NewImputation("r1", st)}
                         [] e = "ImputationPeriods" -> {NewImputationPeriod("r1", st)}
                         [] OTHER                   -> {NewTimeLog("r1")}]
  /\ clock = NoTime + 1
  /\ reqs = [s \in Slots |-> IdleReq]
  /\ lastGuarded = [x \in EntitySets |-> NoCall]

\* A request for a registered bound action arrives, on the path of an action
\* the service declares on the entity; the handler runs up to its first await.
\* A request without an id is rejected with 400 at once.
Dispatch(s, action, entitySetName, params, actor) ==
  /\ reqs[s].pc = "idle"
  /\ \A t \in Slots : t < s => reqs[t].pc # "idle"
  /\ [name |-> action, on |-> entitySetName] \in ServiceActions
  /\ <<action, entitySetName>> \in Registrations
  /\ actor \in ActorInputs(action, entitySetName)
  /\ LET id == extractEntityId(params)
         r  == [IdleReq EXCEPT !.action = action,
                               !.entitySetName = entitySetName,
                               !.id = id, !.actor = actor]
     IN reqs' = [reqs EXCEPT ![s] =
                   IF id = Null
                     THEN [r EXCEPT !.pc = "done", !.code = 400]
                     ELSE [r EXCEPT !.pc = "fetch"]]
  /\ UNCHANGED <<store, clock, lastGuarded, tables, crud>>

\* The store executes the handler's first SELECT.one.
Fetch(s) ==
  /\ reqs[s].pc = "fetch"
  /\ reqs' = [reqs EXCEPT ![s].current = Current(reqs[s].entitySetName,
                                                SelectOne(reqs[s].entitySetName, reqs[s].id)),
                          ![s].calls = Append(@, "get"),
                          ![s].pc = "guard"]
  /\ UNCHANGED <<store, clock, lastGuarded, tables, crud>>

\* Mutant: the handler has no state-machine guard.
GuardRejectsNever(r) == FALSE

\* Mutant: the guard looks at the stored record at the time of the check, not
\* at the record the handler read.
GuardRejectsLive(r) ==
  /\ HasRule(r.action, r.entitySetName)
  /\ \E row \in SelectOne(r.entitySetName, r.id) :
       row[statusField(r.entitySetName)] \notin Rule(r.action, r.entitySetName).from

\* The state-machine guard on the record that was read.
GuardRejects(r) ==
  /\ HasRule(r.action, r.entitySetName)
  /\ Row(r.current).st \notin Rule(r.action, r.entitySetName).from

\* Mutant: no early return when the record is missing; the handler goes on to
\* the UPDATE as it does for an unguarded action.
GuardNoEarly404(s) ==
  /\ reqs[s].pc = "guard"
  /\ LET r == reqs[s] IN
       \/ /\ r.current # {}
          /\ GuardRejects(r)
          /\ reqs' = [reqs EXCEPT ![s].pc = "done", ![s].code = 409]
       \/ /\ IF r.current = {} THEN TRUE ELSE ~GuardRejects(r)
          /\ reqs' = [reqs EXCEPT
                       ![s].changes = buildChanges(r.action, r.entitySetName, r.actor),
                       ![s].at = nowIso,
                       ![s].pc = "update"]
  /\ clock' = IF reqs'[s].pc = "update" THEN clock + 1 ELSE clock
  /\ UNCHANGED <<store, lastGuarded, tables, crud>>

\* The handler resumes with the record it read: 404 when there is none, 409
\* when the guard rejects, otherwise buildChanges and the UPDATE is issued.
\* buildChanges reads the clock, which has moved on by the next reading.
Guard(s) ==
  /\ reqs[s].pc = "guard"
  /\ LET r == reqs[s] IN
       \/ /\ r.current = {}
          /\ reqs' = [reqs EXCEPT ![s].pc = "done", ![s].code = 404]
       \/ /\ r.current # {}
          /\ GuardRejects(r)
          /\ reqs' = [reqs EXCEPT ![s].pc = "done", ![s].code = 409]
       \/ /\ r.current # {}
          /\ ~GuardRejects(r)
          /\ reqs' = [reqs EXCEPT
                       ![s].changes = buildChanges(r.action, r.entitySetName, r.actor),
                       ![s].at = nowIso,
                       ![s].pc = "update"]
  /\ clock' = IF reqs'[s].pc = "update" THEN clock + 1 ELSE clock
  /\ UNCHANGED <<store, lastGuarded, tables, crud>>

\* The store executes the handler's UPDATE.
Update(s) ==
  /\ reqs[s].pc = "update"
  /\ LET r == reqs[s] IN
       /\ store' = [store EXCEPT ![r.entitySetName] =
                      UpdateWhere(r.entitySetName, r.id, r.changes)]
       /\ lastGuarded' =
            IF HasRule(r.action, r.entitySetName)
              THEN [lastGuarded EXCEPT ![r.entitySetName] =
                      [slot |-> s, action |-> r.action, actor |-> r.actor,
                       at |-> r.at, changes |-> r.changes]]
              ELSE lastGuarded
  /\ reqs' = [reqs EXCEPT ![s].calls = Append(@, "update"), ![s].pc = "reread"]
  /\ UNCHANGED <<clock, tables, crud>>

\* Mutant: the handler returns the record with its own change-set laid over it
\* ({ ...row, ...changes }) instead of the record as stored.
RereadOwnChanges(s) ==
  /\ reqs[s].pc = "reread"
  /\ reqs' = [reqs EXCEPT ![s].result =
                            {WithChanges(row, reqs[s].changes) :
                               row \in SelectOne(reqs[s].entitySetName, reqs[s].id)},
                          ![s].calls = Append(@, "get"),
                          ![s].code = 200,
                          ![s].pc = "done"]
  /\ UNCHANGED <<store, clock, lastGuarded, tables, crud>>

\* The store executes the second SELECT.one and the handler returns it.
Reread(s) ==
  /\ reqs[s].pc = "reread"
  /\ reqs' = [reqs EXCEPT ![s].result = SelectOne(reqs[s].entitySetName, reqs[s].id),
                          ![s].calls = Append(@, "get"),
                          ![s].code = 200,
                          ![s].pc = "done"]
  /\ UNCHANGED <<store, clock, lastGuarded, tables, crud>>

\* The response has been sent; the request is over.
Respond(s) ==
  /\ reqs[s].pc = "done"
  /\ reqs' = [reqs EXCEPT ![s] = [IdleReq EXCEPT !.pc = "gone"]]
  /\ UNCHANGED <<store, clock, lastGuarded, tables, crud>>

Next ==
  \/ \E s \in Slots, reg \in Registrations, params \in Ids \cup {Null},
        actor \in Actors \cup {Absent} :
       Dispatch(s, reg[1], reg[2], params, actor)
  \/ \E s \in Slots : Fetch(s)
  \/ \E s \in Slots : Guard(s)
  \/ \E s \in Slots : Update(s)
  \/ \E s \in Slots : Reread(s)
  \/ \E s \in Slots : Respond(s)

Spec == Init /\ [][Next]_vars

\* --------------------------------------------------------------------
\* The life of one record: the handlers stay registered, so requests keep
\* arriving after earlier ones have been answered.
\* --------------------------------------------------------------------
\* Readings of the clock after which no further request is taken.
MaxClock == 3

\* The server takes a further request once an earlier one has been answered.
Recycle(s) ==
  /\ reqs[s].pc = "gone"
  /\ clock <= MaxClock
  /\ reqs' = [reqs EXCEPT ![s] = IdleReq]
  /\ UNCHANGED <<store, clock, lastGuarded, tables, crud>>

LifeNext ==
  \/ Next
  \/ \E s \in Slots : Recycle(s)

\* One ImputationPeriod, as created: status DRAFT, nothing stamped.
DraftInit ==
  /\ tables = NoRows
  /\ crud = [s \in CrudSlots |-> IdleCrud]
  /\ store = [x \in EntitySets |->
                IF x = "ImputationPeriods" THEN {NewImputationPeriod("r1", "DRAFT")}
                ELSE {}]
  /\ clock = NoTime + 1
  /\ reqs = [s \in Slots |-> IdleReq]
  /\ lastGuarded = [x \in EntitySets |-> NoCall]

DraftSpec == DraftInit /\ [][LifeNext]_vars

\* Requests that do not overlap in time: a request arrives only when every
\* earlier handler has returned.
DispatchAlone(s, action, entitySetName, params, actor) ==
  /\ \A t \in Slots : reqs[t].pc \in {"idle", "done", "gone"}
  /\ Dispatch(s, action, entitySetName, params, actor)

SeqNext ==
  \/ \E s \in Slots, reg \in Registrations, params \in Ids \cup {Null},
        actor \in Actors \cup {Absent} :
       DispatchAlone(s, reg[1], reg[2], params, actor)
  \/ \E s \in Slots : Fetch(s)
  \/ \E s \in Slots : Guard(s)
  \/ \E s \in Slots : Update(s)
  \/ \E s \in Slots : Reread(s)
  \/ \E s \in Slots : Respond(s)
  \/ \E s \in Slots : Recycle(s)

SeqSpec == Init /\ [][SeqNext]_vars

\* --------------------------------------------------------------------
\* Store calls that fail. The handler awaits its three store calls without a
\* try/catch: a call that rejects ends the handler, and the request is
\* answered with a server error. A rejected call has changed nothing.
\* --------------------------------------------------------------------
\* The store call a waiting handler has issued.
PendingCall(r) ==
  CASE r.pc = "update" -> "update"
    [] OTHER           -> "get"

\* Mutant: a rejected store call is issued again (up to a few times) instead
\* of ending the request.
StoreFailsRetry(s) ==
  /\ reqs[s].pc \in {"fetch", "update", "reread"}
  /\ Len(reqs[s].calls) < 5
  /\ reqs' = [reqs EXCEPT ![s].calls = Append(@, PendingCall(reqs[s]))]
  /\ UNCHANGED <<store, clock, lastGuarded, tables, crud>>

\* The store rejects the call the handler is waiting for.
StoreFails(s) ==
  /\ reqs[s].pc \in {"fetch", "update", "reread"}
  /\ reqs' = [reqs EXCEPT ![s].calls = Append(@, PendingCall(reqs[s])),
                          ![s].code = 500,
                          ![s].pc = "done"]
  /\ UNCHANGED <<store, clock, lastGuarded, tables, crud>>

FailNext ==
  \/ Next
  \/ \E s \in Slots : StoreFails(s)

\* Every store call of request s returns, with a result or with a failure.
StoreReturns(s) == Fetch(s) \/ Update(s) \/ Reread(s) \/ StoreFails(s)

\* The store answers every call and the event loop resumes every handler
\* whose await has settled.
FailSpec ==
  /\ Init /\ [][FailNext]_vars
  /\ \A s \in Slots : WF_vars(StoreReturns(s)) /\ WF_vars(Guard(s))

\* ====================================================================
\* Structured-field codec (JSON text in LargeString columns)
\* ====================================================================
\* JavaScript values of a structured field. `items` holds the elements of an
\* array and the characters of a string; a quoted string literal of the JSON
\* text counts as one character.
Arr(items) == [type |-> "array", items |-> items]
Str(chars) == [type |-> "string", items |-> chars]
Obj == [type |-> "object", items |-> <<>>]
JsNull == [type |-> "null", items |-> <<>>]
JsUndefined == [type |-> "undefined", items |-> <<>>]

\* Elements of the lists (tags, ids) and their JSON string literals.
Elems == {"a", "b"}
Lit(e) == IF e = "a" THEN "\"a\"" ELSE "\"b\""
Lits == {Lit(e) : e \in Elems}
UnLit(c) == CHOOSE e \in Elems : Lit(e) = c

\* Mutant: the literals are written one after the other, without separator.
JoinNoComma(items) == [i \in 1..Len(items) |-> Lit(items[i])]

RECURSIVE Join(_)
\* The elements' literals separated by commas.
Join(items) ==
  IF items = <<>> THEN <<>>
  ELSE IF Len(items) = 1 THEN <<Lit(items[1])>>
  ELSE <<Lit(items[1]), ",">> \o Join(Tail(items))

\* JSON.stringify of an array of strings or of an empty object.
JSONstringify(v) ==
  IF v.type = "array" THEN <<"[">> \o Join(v.items) \o <<"]">> ELSE <<"{", "}">>

IsWs(c) == c = " "
NoWs(t) == SelectSeq(t, LAMBDA c : ~IsWs(c))

\* JSON.parse of a text: the value, or a SyntaxError (ok = FALSE). White space
\* between tokens is skipped; the text must be one array of string literals
\* separated by commas, or one empty object.
JSONparse(text) ==
  LET t     == NoWs(text)
      n     == Len(t)
      inner == SubSeq(t, 2, n - 1)
      m     == Len(inner)
  IN IF t = <<"{", "}">> THEN [ok |-> TRUE, value |-> Obj]
     ELSE IF n >= 2 /\ t[1] = "[" /\ t[n] = "]"
              /\ (m = 0 \/ (m % 2 = 1
                              /\ \A i \in 1..m :
                                   IF i % 2 = 1 THEN inner[i] \in Lits
                                                ELSE inner[i] = ","))
       THEN [ok |-> TRUE,
             value |-> Arr([i \in 1..((m + 1) \div 2) |-> UnLit(inner[2 * i - 1])])]
       ELSE [ok |-> FALSE, value |-> JsUndefined]

RECURSIVE TrimStart(_)
TrimStart(t) == IF t # <<>> /\ IsWs(Head(t)) THEN TrimStart(Tail(t)) ELSE t

\* value.trim().startsWith(c): white space at the end plays no part.
TrimStartsWith(t, c) == TrimStart(t) # <<>> /\ Head(TrimStart(t)) = c

\* val.startsWith(c)
StartsWith(t, c) == t # <<>> /\ Head(t) = c

\* TicketDomainService._serializeArray
serializeArray(value) ==
  IF value.type = "array" THEN Str(JSONstringify(value))
  ELSE IF value.type = "string" THEN value
  ELSE Str(<<"[", "]">>)

\* Mutant: a parse failure leaves the stored text in place.
deserializeArrayRaw(value) ==
  IF value.type = "array" THEN value
  ELSE IF value.type = "string" /\ TrimStartsWith(value.items, "[")
    THEN IF JSONparse(value.items).ok THEN JSONparse(value.items).value ELSE value
  ELSE Arr(<<>>)

\* Mutant: text that begins with '{' is parsed too, as the handler of the
\* other entities does.
deserializeArrayOrObject(value) ==
  IF value.type = "array" THEN value
  ELSE IF value.type = "string"
          /\ (TrimStartsWith(value.items, "[") \/ TrimStartsWith(value.items, "{"))
    THEN IF JSONparse(value.items).ok THEN JSONparse(value.items).value ELSE Arr(<<>>)
  ELSE Arr(<<>>)

\* Mutant: only text is decoded; a value that is already a list is not
\* recognised and becomes the empty list.
deserializeArrayTextOnly(value) ==
  IF value.type = "string" /\ TrimStartsWith(value.items, "[")
    THEN IF JSONparse(value.items).ok THEN JSONparse(value.items).value ELSE Arr(<<>>)
  ELSE Arr(<<>>)

\* TicketDomainService._deserializeArray
deserializeArray(value) ==
  IF value.type = "array" THEN value
  ELSE IF value.type = "string" /\ TrimStartsWith(value.items, "[")
    THEN IF JSONparse(value.items).ok THEN JSONparse(value.items).value ELSE Arr(<<>>)
  ELSE Arr(<<>>)

\* Mutant: beforeUpdate encodes as beforeCreate does (anything that is neither
\* a list nor text becomes the text of the empty list).
serializeAsOnCreate(value) == serializeArray(value)

\* beforeUpdate: a field is serialized only when it is given as an array.
serializeIfArray(value) ==
  IF value.type = "array" THEN Str(JSONstringify(value)) ELSE value

\* JSON_WRITE_ENTITIES before-handler, one field: arrays and objects are
\* serialized (null is falsy and stays), anything else is left as given.
writeField(value) ==
  IF value.type \in {"array", "object"} THEN Str(JSONstringify(value)) ELSE value

\* JSON_ARRAY_ENTITIES after-handler, one field: text that starts with '[' or
\* '{' is parsed; a parse failure leaves the field as it is.
readField(val) ==
  IF val.type = "string" /\ (StartsWith(val.items, "[") \/ StartsWith(val.items, "{"))
    THEN IF JSONparse(val.items).ok THEN JSONparse(val.items).value ELSE val
    ELSE val

\* ====================================================================
\* Tickets and the entities with structured fields: CREATE, UPDATE, READ
\* ====================================================================
\* Longest list a request supplies.
MaxLen == 2

\* new Date().getFullYear()
CurrentYear == 2026

TicketFields == {"history", "tags", "documentationObjectIds"}
\* JSON_ARRAY_ENTITIES / JSON_WRITE_ENTITIES: the fields of Projects.
ProjectFields == {"techKeywords"}
Required == {"projectId", "title", "nature"}

Lists == {Arr(l) : l \in UNION {[1..n -> Elems] : n \in 0..MaxLen}}
\* Text a client can supply for a structured field: a well-formed list with
\* white space in front, a list that is not closed, an object, an object that
\* is not closed, text that is no JSON at all.
Texts ==
  {Str(t) : t \in {<<" ", "[", Lit("a"), "]">>, <<"[", Lit("a")>>, <<"{", "}">>,
                    <<"{", Lit("a")>>, <<"x">>}}
\* Values a request supplies for a structured field: the empty list, a list of
\* the greatest length, the texts, null, an object.
FieldValues ==
  {Arr(<<>>), Arr([i \in 1..MaxLen |-> IF i % 2 = 1 THEN "a" ELSE "b"])}
    \cup Texts \cup {JsNull, Obj}

RECURSIVE Digits(_)
\* String(seq): the decimal digits of a number.
Digits(n) == IF n < 10 THEN <<n>> ELSE Digits(n \div 10) \o <<n % 10>>

RECURSIVE PadStart(_, _, _)
\* padStart(n, c)
PadStart(d, n, c) == IF Len(d) >= n THEN d ELSE PadStart(<<c>> \o d, n, c)

\* Mutant: the sequence number is the count itself, not the count plus one.
generateTicketCodeZeroBased(year, seq) ==
  <<"TK", year>> \o PadStart(Digits(seq - 1), 4, 0)

\* `TK-${year}-${String(seq).padStart(4, '0')}`
generateTicketCode(year, seq) == <<"TK", year>> \o PadStart(Digits(seq), 4, 0)

\* Codes a client can put in its request data.
SuppliedCodes == {<<"TK", CurrentYear, 9, 9, 9, 9>>, <<"X">>}

\* ticketCode LIKE 'TK-${year}-%'
LikeYear(code, year) == Len(code) >= 2 /\ code[1] = "TK" /\ code[2] = year

\* TicketRepo.countForYear
countForYear(year) ==
  Cardinality({row \in tables["Tickets"] : LikeYear(row.ticketCode, year)})

\* !data.field
Falsy(data, f) == f \notin DOMAIN data \/ data[f] = ""

\* data.field ?? []
OrEmptyList(data, f) ==
  IF f \notin DOMAIN data \/ data[f].type \in {"null", "undefined"}
    THEN Arr(<<>>) ELSE data[f]

Without(d, f) == [g \in DOMAIN d \ {f} |-> d[g]]
With(d, f, v) == [g \in DOMAIN d \cup {f} |-> IF g = f THEN v ELSE d[g]]

\* Mutant: nature is not checked.
missingRequiredButNature(data) == \E f \in {"projectId", "title"} : Falsy(data, f)

\* The guard of beforeCreate: req.error(400, ...) for each missing field.
missingRequired(data) == \E f \in Required : Falsy(data, f)

\* A number, as a JavaScript value.
Num(n) == [type |-> "number", items |-> <<n>>]

\* Mutant: the default is written whatever the request carries.
CoalesceDefaultWins(data, f, d) == d

\* data.field ?? d
Coalesce(data, f, d) ==
  IF f \notin DOMAIN data \/ data[f].type \in {"null", "undefined"} THEN d ELSE data[f]

\* data.field || nowIso(), for a timestamp (null is NoTime)
OrNow(data, f) ==
  IF f \notin DOMAIN data \/ data[f] = NoTime THEN nowIso ELSE data[f]

\* The request data when beforeCreate returns, for the code it has assigned:
\* the defaults, the two timestamps, the serialized fields.
beforeCreateWith(data, ticketCode) ==
  [ticketCode             |-> ticketCode,
   projectId              |-> IF "projectId" \in DOMAIN data THEN data.projectId ELSE Null,
   title                  |-> IF "title" \in DOMAIN data THEN data.title ELSE Null,
   nature                 |-> IF "nature" \in DOMAIN data THEN data.nature ELSE Null,
   status                 |-> IF Falsy(data, "status") THEN "NEW" ELSE data.status,
   effortHours            |-> Coalesce(data, "effortHours", Num(0)),
   estimationHours        |-> Coalesce(data, "estimationHours", Num(0)),
   createdAt              |-> OrNow(data, "createdAt"),
   updatedAt              |-> nowIso,
   history                |-> serializeArray(OrEmptyList(data, "history")),
   tags                   |-> serializeArray(OrEmptyList(data, "tags")),
   documentationObjectIds |-> serializeArray(OrEmptyList(data, "documentationObjectIds")),
   skills                 |-> serializeArray(OrEmptyList(data, "skills"))]

\* Mutant: a ticketCode the request carries is kept.
beforeCreateKeepingCode(data, count) ==
  beforeCreateWith(data, IF "ticketCode" \in DOMAIN data THEN data.ticketCode
                         ELSE generateTicketCode(CurrentYear, count + 1))

\* beforeCreate after the count: the code, the defaults, the serialized fields.
beforeCreate(data, count) ==
  beforeCreateWith(data, generateTicketCode(CurrentYear, count + 1))

\* beforeUpdate: updatedAt is set, and the structured fields given as arrays
\* are serialized.
beforeUpdate(data) ==
  [f \in DOMAIN data \cup {"updatedAt"} |->
     IF f = "updatedAt" THEN nowIso
     ELSE IF f \in TicketFields THEN serializeIfArray(data[f]) ELSE data[f]]

\* afterRead of one ticket row.
afterRead(row) ==
  [f \in DOMAIN row |-> IF f \in TicketFields THEN deserializeArray(row[f]) ELSE row[f]]

\* The before-handler of JSON_WRITE_ENTITIES on the request data.
beforeWrite(data) ==
  [f \in DOMAIN data |-> IF f \in ProjectFields THEN writeField(data[f]) ELSE data[f]]

\* The after-handler of JSON_ARRAY_ENTITIES on one row.
afterReadOther(row) ==
  [f \in DOMAIN row |-> IF f \in ProjectFields THEN readField(row[f]) ELSE row[f]]

\* The after-handler registered for the entity, on a result row.
after(entity, row) ==
  IF entity = "Tickets" THEN afterRead(row) ELSE afterReadOther(row)

\* A new Projects row: the columns the request leaves out are NULL.
NewProject(id, data) ==
  [ID |-> id,
   techKeywords |-> IF "techKeywords" \in DOMAIN data THEN data.techKeywords ELSE JsNull]

\* Request data of a CREATE or an UPDATE.
FullData == [projectId |-> "p1", title |-> "T", nature |-> "BUG"]

CreateData(entity) ==
  IF entity = "Tickets"
    THEN {FullData, With(FullData, "title", ""), With(FullData, "status", "DONE")}
         \cup {Without(FullData, f) : f \in Required}
         \cup {With(FullData, "ticketCode", c) : c \in SuppliedCodes}
         \cup {With(FullData, f, v) : f \in TicketFields, v \in FieldValues}
    ELSE {NoData} \cup {[f \in {"techKeywords"} |-> v] : v \in FieldValues}

UpdateData(entity) ==
  IF entity = "Tickets"
    THEN {[f \in {"status"} |-> "DONE"]}
         \cup {[f \in {"ticketCode"} |-> c] : c \in SuppliedCodes}
         \cup {[f \in {g} |-> v] : g \in TicketFields, v \in FieldValues}
    ELSE {[f \in {"techKeywords"} |-> v] : v \in FieldValues}

\* A timestamp a client puts in its request data; no reading of the clock
\* equals it.
SuppliedTime == MaxClock + 1

\* Request data of the creates that exercise the defaults of a ticket: each
\* defaulted field absent, supplied, and supplied empty or null.
TicketCreateData ==
  {FullData, Without(FullData, "nature"),
   With(FullData, "status", "DONE"), With(FullData, "status", ""),
   With(FullData, "effortHours", Num(5)), With(FullData, "effortHours", JsNull),
   With(FullData, "estimationHours", Num(5)), With(FullData, "estimationHours", JsNull),
   With(FullData, "createdAt", SuppliedTime), With(FullData, "createdAt", NoTime),
   With(FullData, "updatedAt", SuppliedTime)}
    \cup {With(FullData, "ticketCode", c) : c \in SuppliedCodes}
    \cup {With(FullData, "tags", v) : v \in FieldValues}

\* Request data of the updates of a ticket: a status, an empty title, a
\* timestamp of the client's, a structured field in each of its forms.
TicketUpdateData ==
  {[f \in {"status"} |-> "DONE"], [f \in {"title"} |-> ""],
   [f \in {"updatedAt"} |-> SuppliedTime]}
    \cup {[f \in {"tags"} |-> v] : v \in FieldValues}

\* SELECT of one row by key.
RowsOf(entity, id) == {row \in tables[entity] : row.ID = id}

\* The dispatcher is not involved: its tables are empty and stay so.
CrudInit ==
  /\ store = [x \in EntitySets |-> {}]
  /\ clock = NoTime + 1
  /\ reqs = [s \in Slots |-> IdleReq]
  /\ lastGuarded = [x \in EntitySets |-> NoCall]
  /\ tables = NoRows
  /\ crud = [s \in CrudSlots |-> IdleCrud]

\* A request is accepted when every request with a lower number has been; a
\* created row gets the number of its request as key, and an UPDATE or a READ
\* addresses a key that was given out or its own number (no such row).
CrudFree(s) ==
  /\ crud[s].pc = "idle"
  /\ \A t \in CrudSlots : t < s => crud[t].pc # "idle"

\* CREATE arrives; the before-handlers run up to their first await: the ticket
\* handler records a 400 for each missing field and goes on to the count, the
\* handler of the other entities serializes and returns.
Create(s, entity, data) ==
  /\ CrudFree(s)
  /\ entity \in {"Tickets", "Projects"}
  /\ data \in CreateData(entity) \cup (IF entity = "Tickets" THEN TicketCreateData ELSE {})
  /\ crud' = [crud EXCEPT ![s] =
       [IdleCrud EXCEPT !.op = "CREATE", !.entity = entity, !.id = s,
                        !.given = data,
                        !.data = IF entity = "Tickets" THEN data ELSE beforeWrite(data),
                        !.errors = entity = "Tickets" /\ missingRequired(data),
                        !.pc = IF entity = "Tickets" THEN "count" ELSE "insert"]]
  /\ UNCHANGED <<store, clock, reqs, lastGuarded, tables>>

\* The store answers the count; beforeCreate finishes. A request with recorded
\* errors is rejected when the handler returns, before the INSERT.
CountForYear(s) ==
  /\ crud[s].pc = "count"
  /\ LET count == countForYear(CurrentYear) IN
       crud' = [crud EXCEPT ![s].count = count,
                            ![s].data = beforeCreate(crud[s].data, count),
                            ![s].calls = Append(@, "find"),
                            ![s].code = IF crud[s].errors THEN 400 ELSE 0,
                            ![s].pc = IF crud[s].errors THEN "done" ELSE "insert"]
  /\ UNCHANGED <<store, clock, reqs, lastGuarded, tables>>

\* The store executes the INSERT; the after-handler decodes the result.
Insert(s) ==
  /\ crud[s].pc = "insert"
  /\ LET r   == crud[s]
         row == IF r.entity = "Tickets" THEN With(r.data, "ID", r.id)
                ELSE NewProject(r.id, r.data)
     IN /\ tables' = [tables EXCEPT ![r.entity] = @ \cup {row}]
        /\ crud' = [crud EXCEPT ![s].result = {after(r.entity, row)},
                                ![s].calls = Append(@, "insert"),
                                ![s].code = 201,
                                ![s].pc = "done"]
  /\ UNCHANGED <<store, clock, reqs, lastGuarded>>

\* UPDATE arrives; the before-handler serializes what it is given.
UpdateReq(s, entity, id, data) ==
  /\ CrudFree(s)
  /\ id \in 1..s
  /\ entity \in {"Tickets", "Projects"}
  /\ data \in UpdateData(entity) \cup (IF entity = "Tickets" THEN TicketUpdateData ELSE {})
  /\ crud' = [crud EXCEPT ![s] =
       [IdleCrud EXCEPT !.op = "UPDATE", !.entity = entity, !.id = id,
                        !.given = data,
                        !.data = IF entity = "Tickets" THEN beforeUpdate(data)
                                 ELSE beforeWrite(data),
                        !.pc = "write"]]
  /\ UNCHANGED <<store, clock, reqs, lastGuarded, tables>>

\* The store executes the UPDATE (404 when the key matches no row); the
\* after-handler decodes the result.
Write(s) ==
  /\ crud[s].pc = "write"
  /\ LET r == crud[s] IN
       IF RowsOf(r.entity, r.id) = {}
         THEN /\ crud' = [crud EXCEPT ![s].code = 404, ![s].pc = "done",
                                      ![s].calls = Append(@, "update")]
              /\ UNCHANGED tables
         ELSE /\ tables' = [tables EXCEPT ![r.entity] =
                             {IF row.ID = r.id THEN WithChanges(row, r.data) ELSE row :
                                row \in tables[r.entity]}]
              /\ crud' = [crud EXCEPT
                            ![s].result = {after(r.entity, WithChanges(row, r.data)) :
                                             row \in RowsOf(r.entity, r.id)},
                            ![s].calls = Append(@, "update"),
                            ![s].code = 200,
                            ![s].pc = "done"]
  /\ UNCHANGED <<store, clock, reqs, lastGuarded>>

\* READ of one row by key arrives.
ReadReq(s, entity, id) ==
  /\ CrudFree(s)
  /\ id \in 1..s
  /\ entity \in {"Tickets", "Projects"}
  /\ crud' = [crud EXCEPT ![s] =
       [IdleCrud EXCEPT !.op = "READ", !.entity = entity, !.id = id, !.pc = "read"]]
  /\ UNCHANGED <<store, clock, reqs, lastGuarded, tables>>

\* The store executes the SELECT; the after-handler decodes the rows.
ReadRow(s) ==
  /\ crud[s].pc = "read"
  /\ LET r == crud[s] IN
       crud' = [crud EXCEPT
                 ![s].result = {after(r.entity, row) : row \in RowsOf(r.entity, r.id)},
                 ![s].calls = Append(@, "get"),
                 ![s].code = IF RowsOf(r.entity, r.id) = {} THEN 404 ELSE 200,
                 ![s].pc = "done"]
  /\ UNCHANGED <<store, clock, reqs, lastGuarded, tables>>

\* The response has been sent; the request is over.
RespondCrud(s) ==
  /\ crud[s].pc = "done"
  /\ crud[s].op \in {"CREATE", "UPDATE", "READ"}
  /\ crud' = [crud EXCEPT ![s] = [IdleCrud EXCEPT !.pc = "gone"]]
  /\ UNCHANGED <<store, clock, reqs, lastGuarded, tables>>

CrudNext ==
  \/ \E s \in CrudSlots, entity \in {"Tickets", "Projects"} :
       \E data \in CreateData(entity) : Create(s, entity, data)
  \/ \E s \in CrudSlots : CountForYear(s)
  \/ \E s \in CrudSlots : Insert(s)
  \/ \E s \in CrudSlots, entity \in {"Tickets", "Projects"}, id \in CrudSlots :
       \E data \in UpdateData(entity) : UpdateReq(s, entity, id, data)
  \/ \E s \in CrudSlots : Write(s)
  \/ \E s \in CrudSlots, entity \in {"Tickets", "Projects"}, id \in CrudSlots :
       ReadReq(s, entity, id)
  \/ \E s \in CrudSlots : ReadRow(s)
  \/ \E s \in CrudSlots : RespondCrud(s)

CrudSpec == CrudInit /\ [][CrudNext]_vars

\* --------------------------------------------------------------------
\* Creates that do not overlap: a CREATE arrives only when every earlier
\* CREATE has been answered. Updates arrive at any time, and go on arriving.
\* --------------------------------------------------------------------
CreateAlone(s, entity, data) ==
  /\ \A t \in CrudSlots : crud[t].op = "CREATE" => crud[t].pc = "done"
  /\ Create(s, entity, data)

\* The response to an UPDATE has been sent and a further request can arrive
\* in its place.
RespondUpdate(s) ==
  /\ crud[s].pc = "done"
  /\ crud[s].op = "UPDATE"
  /\ crud' = [crud EXCEPT ![s] = IdleCrud]
  /\ UNCHANGED <<store, clock, reqs, lastGuarded, tables>>

\* Request data of the creates and updates of this specification.
SeqCreateData ==
  {FullData, Without(FullData, "nature")}
    \cup {With(FullData, "ticketCode", c) : c \in SuppliedCodes}

SeqUpdateData ==
  {[f \in {"status"} |-> "DONE"]} \cup {[f \in {"ticketCode"} |-> c] : c \in SuppliedCodes}

SeqCrudNext ==
  \/ \E s \in CrudSlots, data \in SeqCreateData : CreateAlone(s, "Tickets", data)
  \/ \E s \in CrudSlots : CountForYear(s)
  \/ \E s \in CrudSlots : Insert(s)
  \/ \E s \in CrudSlots, id \in CrudSlots, data \in SeqUpdateData :
       UpdateReq(s, "Tickets", id, data)
  \/ \E s \in CrudSlots : Write(s)
  \/ \E s \in CrudSlots : RespondCrud(s)
  \/ \E s \in CrudSlots : RespondUpdate(s)

SeqCrudSpec == CrudInit /\ [][SeqCrudNext]_vars

\* --------------------------------------------------------------------
\* Tickets while time passes: the clock moves on between the steps of the
\* requests, so the timestamps a handler writes tell the requests apart.
\* --------------------------------------------------------------------
\* new Date(): a later reading of the clock is greater.
Tick ==
  /\ clock < MaxClock
  /\ clock' = clock + 1
  /\ UNCHANGED <<store, reqs, lastGuarded, tables, crud>>

TicketNext ==
  \/ \E s \in CrudSlots, data \in TicketCreateData : Create(s, "Tickets", data)
  \/ \E s \in CrudSlots : CountForYear(s)
  \/ \E s \in CrudSlots : Insert(s)
  \/ \E s \in CrudSlots, id \in CrudSlots, data \in TicketUpdateData :
       UpdateReq(s, "Tickets", id, data)
  \/ \E s \in CrudSlots : Write(s)
  \/ \E s \in CrudSlots : RespondCrud(s)
  \/ Tick

TicketSpec == CrudInit /\ [][TicketNext]_vars

\* ====================================================================
\* authenticate
\* ====================================================================
\* Strings are sequences of characters.
Alice == <<"a", "l">>
Marc == <<"m", "c">>
Zed == <<"z", "d">>

\* DEMO_PASSWORD_BY_EMAIL: the accounts that have a password.
DEMO_PASSWORD_BY_EMAIL ==
  [e \in {Alice, Marc} |-> IF e = Alice THEN <<"p", "1">> ELSE <<"q", "2">>]

\* What a client sends as email and as password.
EmailInputs == {Alice, <<" ", "A", "l", " ">>, Marc, Zed, <<>>, <<" ">>}
PasswordInputs == {<<"p", "1">>, <<"q", "2">>, <<"p", "9">>, <<"p">>, <<>>}
AuthData ==
  {NoData} \cup {[f \in {"email"} |-> e] : e \in EmailInputs}
    \cup {[email |-> e, password |-> p] : e \in EmailInputs, p \in PasswordInputs}

RECURSIVE TrimEnd(_)
TrimEnd(t) ==
  IF t # <<>> /\ IsWs(t[Len(t)]) THEN TrimEnd(SubSeq(t, 1, Len(t) - 1)) ELSE t

\* trim()
Trim(t) == TrimEnd(TrimStart(t))

\* toLowerCase()
ToLowerCase(t) == [i \in 1..Len(t) |-> IF t[i] = "A" THEN "a" ELSE t[i]]

\* String(req.data?.field ?? '')
StringOr(data, f) == IF f \in DOMAIN data THEN data[f] ELSE <<>>

\* Buffers of different lengths are unequal; timingSafeEqual compares the rest.
safeEqual(left, right) == IF Len(left) # Len(right) THEN FALSE ELSE left = right

\* The two checks made before the Users table is read.
credentialsRejected(email, password) ==
  \/ email = <<>> \/ password = <<>>
  \/ email \notin DOMAIN DEMO_PASSWORD_BY_EMAIL
  \/ ~safeEqual(password, DEMO_PASSWORD_BY_EMAIL[email])

\* Users rows: Alice's email is stored in mixed case; Zed has no password.
UserRow(id, email, active) == [ID |-> id, email |-> email, active |-> active]

UsersTables ==
  {{UserRow(3, Zed, TRUE)}
     \cup (IF st[Alice] = "none" THEN {} ELSE {UserRow(1, <<"A", "l">>, st[Alice] = "active")})
     \cup (IF st[Marc] = "none" THEN {} ELSE {UserRow(2, Marc, st[Marc] = "active")}) :
   st \in [{Alice, Marc} -> {"active", "inactive", "none"}]}

AuthInit ==
  /\ store = [x \in EntitySets |-> {}]
  /\ clock = NoTime + 1
  /\ reqs = [s \in Slots |-> IdleReq]
  /\ lastGuarded = [x \in EntitySets |-> NoCall]
  /\ \E users \in UsersTables : tables = [NoRows EXCEPT !["Users"] = users]
  /\ crud = [s \in CrudSlots |-> IdleCrud]

\* Mutant: a request for an unknown email is told so.
AuthenticateTellsUnknown(s, data) ==
  /\ CrudFree(s)
  /\ LET email    == ToLowerCase(Trim(StringOr(data, "email")))
         password == StringOr(data, "password")
         r == [IdleCrud EXCEPT !.op = "authenticate", !.entity = "Users",
                               !.given = data,
                               !.data = [email |-> email, password |-> password]]
     IN crud' = [crud EXCEPT ![s] =
                   IF email # <<>> /\ email \notin DOMAIN DEMO_PASSWORD_BY_EMAIL
                     THEN [r EXCEPT !.pc = "done", !.code = 401,
                                    !.message = "Unknown email"]
                   ELSE IF credentialsRejected(email, password)
                     THEN [r EXCEPT !.pc = "done", !.code = 401,
                                    !.message = "Invalid credentials"]
                     ELSE [r EXCEPT !.pc = "users"]]
  /\ UNCHANGED <<store, clock, reqs, lastGuarded, tables>>

\* POST /authenticate { email, password }: the handler up to its await.
Authenticate(s, data) ==
  /\ CrudFree(s)
  /\ LET email    == ToLowerCase(Trim(StringOr(data, "email")))
         password == StringOr(data, "password")
         r == [IdleCrud EXCEPT !.op = "authenticate", !.entity = "Users",
                               !.given = data,
                               !.data = [email |-> email, password |-> password]]
     IN crud' = [crud EXCEPT ![s] =
                   IF credentialsRejected(email, password)
                     THEN [r EXCEPT !.pc = "done", !.code = 401,
                                    !.message = "Invalid credentials"]
                     ELSE [r EXCEPT !.pc = "users"]]
  /\ UNCHANGED <<store, clock, reqs, lastGuarded, tables>>

\* SELECT.from(Users).where({ active: true }), then the user with the email.
ActiveUser(s) ==
  /\ crud[s].pc = "users"
  /\ LET activeUsers == {u \in tables["Users"] : u.active}
         found == {u \in activeUsers : ToLowerCase(u.email) = crud[s].data.email}
     IN crud' = [crud EXCEPT
                  ![s].calls = Append(@, "find"),
                  ![s].result = found,
                  ![s].code = IF found = {} THEN 401 ELSE 200,
                  ![s].message = IF found = {} THEN "Invalid credentials" ELSE Null,
                  ![s].pc = "done"]
  /\ UNCHANGED <<store, clock, reqs, lastGuarded, tables>>

\* The response has been sent; the request is over.
RespondAuth(s) ==
  /\ crud[s].pc = "done"
  /\ crud[s].op = "authenticate"
  /\ crud' = [crud EXCEPT ![s] = [IdleCrud EXCEPT !.pc = "gone"]]
  /\ UNCHANGED <<store, clock, reqs, lastGuarded, tables>>

AuthNext ==
  \/ \E s \in CrudSlots, data \in AuthData : Authenticate(s, data)
  \/ \E s \in CrudSlots : ActiveUser(s)
  \/ \E s \in CrudSlots : RespondAuth(s)

AuthSpec == AuthInit /\ [][AuthNext]_vars

\* ====================================================================
\* Properties
\* ====================================================================

\* The transition table as the specification states it (section 4.1).
Guarded(entitySetName, action) ==
  \/ entitySetName = "Imputations" /\ action \in {"validate", "reject"}
  \/ entitySetName = "ImputationPeriods" /\ action \in {"submit", "validate", "reject"}

AllowedFrom(entitySetName, action) ==
  CASE entitySetName = "Imputations" /\ action = "validate" ->
         {"DRAFT", "SUBMITTED", "REJECTED"}
    [] entitySetName = "Imputations" /\ action = "reject" -> {"DRAFT", "SUBMITTED"}
    [] entitySetName = "ImputationPeriods" /\ action = "submit" -> {"DRAFT", "REJECTED"}
    [] entitySetName = "ImputationPeriods" /\ action = "validate" -> {"SUBMITTED"}
    [] entitySetName = "ImputationPeriods" /\ action = "reject" -> {"SUBMITTED"}
    [] OTHER -> Statuses

Target(entitySetName, action) ==
  CASE action = "validate" -> "VALIDATED"
    [] action = "reject"   -> "REJECTED"
    [] OTHER               -> "SUBMITTED"

\* The handler of request s has been resumed with the result of its first read.
PastGuard(s) == reqs[s].pc \in {"update", "reread", "done"} /\ reqs[s].calls # <<>>

\* Request s read a record whose status is outside its action's allowed-from set.
ReadBadStatus(s) ==
  /\ Guarded(reqs[s].entitySetName, reqs[s].action)
  /\ reqs[s].current # {}
  /\ Row(reqs[s].current).st
       \notin AllowedFrom(reqs[s].entitySetName, reqs[s].action)

\* The store has applied the UPDATE of request s.
Wrote(s) == \E i \in 1..Len(reqs[s].calls) : reqs[s].calls[i] = "update"

\* This step is the store applying the UPDATE of request s.
UpdateStep(s) == reqs[s].pc = "update" /\ reqs'[s].pc = "reread"

\* This step is the second read of request s, whose result the handler returns.
RereadStep(s) == reqs[s].pc = "reread" /\ reqs'[s].pc = "done"

\* The status column of the stored record of an entity set.
StoredStatus(entitySetName) ==
  Row(store[entitySetName])[statusField(entitySetName)]

\* C1: a guarded action dispatched on a record whose status is not in the
\* rule's allowed-from set ends with 409 (InvalidTransition) and writes
\* nothing: the handler built no change-set and the store saw no UPDATE from
\* it, so the status it found is left as it was.
C1_InvalidTransition ==
  \A s \in Slots :
    (PastGuard(s) /\ ReadBadStatus(s))
      => /\ reqs[s].pc = "done"
         /\ reqs[s].code = 409
         /\ reqs[s].calls = <<"get">>
         /\ DOMAIN reqs[s].changes = {}

C1_Witness ==
  \E s \in Slots :
    /\ reqs[s].pc = "done" /\ reqs[s].code = 409
    /\ ReadBadStatus(s)
    /\ StoredStatus(reqs[s].entitySetName) = Row(reqs[s].current).st

\* C2: an action, guarded or not, dispatched on an identifier that resolves
\* to no record ends with 404 (NotFound) and the store sees no UPDATE from it.
C2_NotFoundNoWrite ==
  \A s \in Slots :
    (PastGuard(s) /\ reqs[s].current = {})
      => /\ reqs[s].pc = "done"
         /\ reqs[s].code = 404
         /\ reqs[s].calls = <<"get">>

C2_Witness ==
  \E s, t \in Slots :
    /\ reqs[s].pc = "done" /\ reqs[s].code = 404
    /\ reqs[t].pc = "done" /\ reqs[t].code = 404
    /\ Guarded(reqs[s].entitySetName, reqs[s].action)
    /\ reqs[t].action = "sendToStraTIME"

\* C3 as stated: every status change made by a guarded action starts from a
\* stored status in the action's allowed-from set, taken immediately before
\* the write, and ends in the action's target.
C3_StoredStatusAllowedAtWrite ==
  [][\A s \in Slots :
       (UpdateStep(s) /\ Guarded(reqs[s].entitySetName, reqs[s].action))
         => /\ StoredStatus(reqs[s].entitySetName)
                 \in AllowedFrom(reqs[s].entitySetName, reqs[s].action)
            /\ StoredStatus(reqs[s].entitySetName)'
                 = Target(reqs[s].entitySetName, reqs[s].action)]_vars

\* C3 amended: every write of a guarded action is made by a call that read a
\* status in the action's allowed-from set at its guard, and the stored status
\* after the write is the action's target; the status stored immediately
\* before the write may be any status another call wrote since that read.
C3_ReadStatusAllowedAtWrite ==
  [][\A s \in Slots :
       (UpdateStep(s) /\ Guarded(reqs[s].entitySetName, reqs[s].action))
         => /\ reqs[s].current # {}
            /\ Row(reqs[s].current).st
                 \in AllowedFrom(reqs[s].entitySetName, reqs[s].action)
            /\ StoredStatus(reqs[s].entitySetName)'
                 = Target(reqs[s].entitySetName, reqs[s].action)]_vars

\* A guarded write has landed on a status that is not in its allowed-from set.
C3_Witness ==
  \E s, t \in Slots :
    /\ s # t
    /\ reqs[s].entitySetName = reqs[t].entitySetName
    /\ Guarded(reqs[s].entitySetName, reqs[s].action)
    /\ Guarded(reqs[t].entitySetName, reqs[t].action)
    /\ Wrote(s) /\ Wrote(t)
    /\ lastGuarded[reqs[s].entitySetName].slot = s
    /\ Target(reqs[t].entitySetName, reqs[t].action)
         \notin AllowedFrom(reqs[s].entitySetName, reqs[s].action)
    /\ StoredStatus(reqs[s].entitySetName)
         = Target(reqs[s].entitySetName, reqs[s].action)

\* C4 as stated: once the stored status of a period is VALIDATED no step
\* changes it, in any interleaving.
C4_ValidatedNeverLeft ==
  [][\A row \in store["ImputationPeriods"] :
       row.status = "VALIDATED"
         => \A row2 \in store["ImputationPeriods"]' : row2.status = "VALIDATED"]_vars

\* C4 amended: VALIDATED is terminal for every call that reads the period while
\* it is VALIDATED; a stored VALIDATED is only ever replaced by the UPDATE of a
\* guarded call that read the period before it became VALIDATED (a status in
\* its own allowed-from set) and writes after the validate did.
C4_ValidatedLeftOnlyByStaleWrite ==
  [][\A row \in store["ImputationPeriods"] :
       (row.status = "VALIDATED"
          /\ \E row2 \in store["ImputationPeriods"]' : row2.status # "VALIDATED")
         => \E s \in Slots :
              /\ UpdateStep(s)
              /\ reqs[s].entitySetName = "ImputationPeriods"
              /\ Row(reqs[s].current).st # "VALIDATED"
              /\ Row(reqs[s].current).st
                   \in AllowedFrom("ImputationPeriods", reqs[s].action)]_vars

\* A period validated by one call, and every action read it as VALIDATED
\* afterwards: the guarded one is rejected and the status stays.
C4_Witness ==
  \E s, t \in Slots :
    /\ reqs[s].entitySetName = "ImputationPeriods" /\ reqs[s].action = "validate"
    /\ Wrote(s)
    /\ reqs[t].entitySetName = "ImputationPeriods"
    /\ reqs[t].action \in {"submit", "reject", "validate"}
    /\ reqs[t].current # {} /\ Row(reqs[t].current).st = "VALIDATED"
    /\ reqs[t].pc = "done" /\ reqs[t].code = 409
    /\ StoredStatus("ImputationPeriods") = "VALIDATED"

\* C5: the read-check-write is not atomic. A validate on an Imputation that
\* read SUBMITTED passes the guard on what it read and goes on to its UPDATE and
\* to success, whatever was written to the record since the read; so two
\* concurrent validates that both read SUBMITTED both write and both succeed.
C5_GuardUsesTheRead ==
  \A s \in Slots :
    (/\ PastGuard(s)
     /\ reqs[s].entitySetName = "Imputations" /\ reqs[s].action = "validate"
     /\ reqs[s].current # {} /\ Row(reqs[s].current).st = "SUBMITTED")
      => /\ reqs[s].code # 409
         /\ DOMAIN reqs[s].changes # {}
         /\ reqs[s].pc = "done"
              => reqs[s].code = 200 /\ reqs[s].calls = <<"get", "update", "get">>

C5_Witness ==
  \E s, t \in Slots :
    /\ s # t
    /\ \A u \in {s, t} :
         /\ reqs[u].entitySetName = "Imputations" /\ reqs[u].action = "validate"
         /\ reqs[u].pc = "done" /\ reqs[u].code = 200
         /\ Row(reqs[u].current).st = "SUBMITTED"
         /\ reqs[u].calls = <<"get", "update", "get">>

\* C6: last writer wins without torn state. Whenever guarded updates have been
\* applied to a record, every column of the change-set applied last (status and
\* audit columns alike) is what the record holds: the stored status never comes
\* from one call and the audit columns from another.
C6_LastWriterWins ==
  \A e \in EntitySets :
    lastGuarded[e].action # Null
      => \A row \in store[e] :
           \A f \in DOMAIN lastGuarded[e].changes :
             row[f] = lastGuarded[e].changes[f]

\* Two guarded calls passed the guard on the same read status, with different
\* change-sets, and both were applied.
C6_Witness ==
  \E s, t \in Slots :
    /\ s # t
    /\ reqs[s].entitySetName = reqs[t].entitySetName
    /\ Guarded(reqs[s].entitySetName, reqs[s].action)
    /\ Guarded(reqs[t].entitySetName, reqs[t].action)
    /\ Wrote(s) /\ Wrote(t)
    /\ Row(reqs[s].current).st = Row(reqs[t].current).st
    /\ reqs[s].action # reqs[t].action
    /\ reqs[s].actor # reqs[t].actor
    /\ lastGuarded[reqs[s].entitySetName].slot = s

\* C7 as stated: a guarded action that succeeds returns a record carrying the
\* rule's target status and the audit columns written by that same call.
C7_ReturnsOwnChanges ==
  \A s \in Slots :
    (/\ reqs[s].pc = "done" /\ reqs[s].code = 200
     /\ Guarded(reqs[s].entitySetName, reqs[s].action))
      => \A row \in reqs[s].result :
           /\ row[statusField(reqs[s].entitySetName)]
                = Target(reqs[s].entitySetName, reqs[s].action)
           /\ \A f \in DOMAIN reqs[s].changes : row[f] = reqs[s].changes[f]

\* C7 amended: a guarded action that succeeds returns the record as stored at
\* its re-read. The record carries the status and audit columns of the guarded
\* update applied last before the re-read; they are the target status and the
\* columns written by the returning call itself when no other guarded update
\* of the record was applied between its own update and its re-read.
C7_ReturnsLastAppliedChanges ==
  [][\A s \in Slots :
       (RereadStep(s) /\ Guarded(reqs[s].entitySetName, reqs[s].action))
         => LET last == lastGuarded[reqs[s].entitySetName] IN
              /\ reqs'[s].code = 200
              /\ reqs'[s].result # {}
              /\ \A row \in reqs'[s].result :
                   /\ \A f \in DOMAIN last.changes : row[f] = last.changes[f]
                   /\ last.slot = s
                        => /\ row[statusField(reqs[s].entitySetName)]
                                = Target(reqs[s].entitySetName, reqs[s].action)
                           /\ \A f \in DOMAIN reqs[s].changes :
                                row[f] = reqs[s].changes[f]]_vars

\* A guarded call has returned its own writes although another guarded call
\* wrote the same record before it.
C7_Witness ==
  \E s, t \in Slots :
    /\ s # t
    /\ reqs[s].entitySetName = reqs[t].entitySetName
    /\ Guarded(reqs[s].entitySetName, reqs[s].action)
    /\ Guarded(reqs[t].entitySetName, reqs[t].action)
    /\ reqs[s].pc = "done" /\ reqs[s].code = 200
    /\ Wrote(t)
    /\ reqs[s].action # reqs[t].action
    /\ \A row \in reqs[s].result :
         \A f \in DOMAIN reqs[s].changes : row[f] = reqs[s].changes[f]

\* C8 as stated: per dispatched action the store sees exactly one get first,
\* then, when the record exists and the guard passes, exactly one updateFields
\* followed by exactly one get, and otherwise nothing more.
C8_OneGetFirst ==
  \A s \in Slots :
    reqs[s].pc = "done"
      => IF reqs[s].current # {} /\ ~ReadBadStatus(s)
           THEN reqs[s].calls = <<"get", "update", "get">>
           ELSE reqs[s].calls = <<"get">>

\* C8 amended: per dispatched action that carries a record identifier the
\* store sees exactly one get first, then, when the record exists and the guard
\* passes, exactly one updateFields followed by exactly one get, and otherwise
\* nothing more; an action dispatched without identifier makes no store call.
C8_StoreCallsPerAction ==
  \A s \in Slots :
    /\ reqs[s].pc = "fetch" => reqs[s].calls = <<>>
    /\ reqs[s].pc \in {"guard", "update"} => reqs[s].calls = <<"get">>
    /\ reqs[s].pc = "reread" => reqs[s].calls = <<"get", "update">>
    /\ reqs[s].pc = "done"
         => IF reqs[s].id = Null
              THEN reqs[s].calls = <<>>
              ELSE IF reqs[s].current # {} /\ ~ReadBadStatus(s)
                     THEN reqs[s].calls = <<"get", "update", "get">>
                     ELSE reqs[s].calls = <<"get">>

\* One action has gone through get, updateFields, get, and another has stopped
\* after its get.
C8_Witness ==
  \E s, t \in Slots :
    /\ reqs[s].pc = "done" /\ reqs[s].calls = <<"get", "update", "get">>
    /\ reqs[t].pc = "done" /\ reqs[t].calls = <<"get">>

\* C9: the three failures are distinguished and exclusive, and checked in
\* order. A finished request has 400 exactly when it carries no identifier
\* (and then no record was looked up), 404 exactly when its identifier resolves
\* to no record, 409 exactly when the record exists and its status fails the
\* guard, and 200 otherwise.
C9_FailureCodes ==
  \A s \in Slots :
    reqs[s].pc = "done"
      => /\ reqs[s].code \in {200, 400, 404, 409}
         /\ reqs[s].code = 400 <=> reqs[s].id = Null
         /\ reqs[s].code = 400 => reqs[s].calls = <<>>
         /\ reqs[s].code = 404 <=> (reqs[s].id # Null /\ reqs[s].current = {})
         /\ reqs[s].code = 409 <=> (reqs[s].id # Null /\ ReadBadStatus(s))
         /\ reqs[s].code \in {404, 409} => reqs[s].calls = <<"get">>

C9_Witness ==
  \E s, t \in Slots :
    /\ reqs[s].pc = "done" /\ reqs[t].pc = "done"
    /\ reqs[s].code = 409
    /\ reqs[t].code \in {400, 404}
    /\ reqs[s].entitySetName = reqs[t].entitySetName \/ reqs[t].code = 404

\* C10: validatedBy and validatedAt of an Imputation created with null audit
\* columns are null until a validate or reject has been applied; from then on
\* they are the actor (null when none was given) and the timestamp of the
\* validate or reject applied last, and nothing else changes them.
C10_AuditColumns ==
  \A row \in store["Imputations"] :
    LET last == lastGuarded["Imputations"] IN
      IF last.action = Null
        THEN row.validatedBy = Null /\ row.validatedAt = NoTime
        ELSE /\ row.validatedBy = (IF last.actor = Absent THEN Null ELSE last.actor)
             /\ row.validatedAt = last.at
             /\ row.validatedAt # NoTime

\* Two calls have written the audit columns, the second with an actor.
C10_Witness ==
  \E s, t \in Slots :
    /\ s # t
    /\ reqs[s].entitySetName = "Imputations" /\ reqs[t].entitySetName = "Imputations"
    /\ Wrote(s) /\ Wrote(t)
    /\ lastGuarded["Imputations"].slot = t
    /\ reqs[s].actor # reqs[t].actor
    /\ \E row \in store["Imputations"] :
         row.validatedBy = reqs[t].actor /\ row.validatedAt = reqs[t].at

\* This step is the handler of request s resuming after its first read.
GuardStep(s) == reqs[s].pc = "guard" /\ reqs'[s].pc # "guard"

\* C11: sentToStraTIME is monotonic on ImputationPeriods and TimeLogs: no step
\* of any dispatched action, in any interleaving, takes a record whose
\* sentToStraTIME is true to a record whose sentToStraTIME is not.
C11_SentMonotonic ==
  [][\A e \in {"ImputationPeriods", "TimeLogs"} :
       \A row \in store[e] :
         row.sentToStraTIME
           => \A row2 \in store'[e] : row2.ID = row.ID => row2.sentToStraTIME]_vars

\* A period was sent while DRAFT (the send returned it so), a submit was
\* applied to it afterwards, and it is still marked as sent.
C11_Witness ==
  \E s, t \in Slots :
    /\ reqs[s].entitySetName = "ImputationPeriods" /\ reqs[s].action = "sendToStraTIME"
    /\ reqs[s].pc = "done" /\ reqs[s].code = 200
    /\ \A row \in reqs[s].result : row.status = "DRAFT" /\ row.sentToStraTIME
    /\ reqs[t].entitySetName = "ImputationPeriods" /\ reqs[t].action = "submit"
    /\ Wrote(t)
    /\ \A row \in store["ImputationPeriods"] :
         row.status = "SUBMITTED" /\ row.sentToStraTIME

\* C12: sendToStraTIME on a TimeLog that is already sent is not guarded and
\* can be repeated: the call goes on to its UPDATE, the UPDATE leaves
\* sentToStraTIME true and replaces sentAt by the call's own timestamp (a
\* different instant from the one stored), and the call returns with success.
C12_ResendTimeLog ==
  [][\A s \in Slots :
       (/\ reqs[s].entitySetName = "TimeLogs" /\ reqs[s].action = "sendToStraTIME"
        /\ \E row \in SelectOne("TimeLogs", reqs[s].id) : row.sentToStraTIME)
         => /\ GuardStep(s) => reqs'[s].pc = "update"
            /\ UpdateStep(s)
                 => \A old \in SelectOne("TimeLogs", reqs[s].id) :
                      \A row \in store'["TimeLogs"] :
                        row.ID = old.ID
                          => /\ row.sentToStraTIME
                             /\ row.sentAt = reqs[s].at
                             /\ row.sentAt # old.sentAt
            /\ RereadStep(s)
                 => /\ reqs'[s].code = 200
                    /\ reqs'[s].result # {}
                    /\ \A row \in reqs'[s].result : row.sentToStraTIME]_vars

\* Two sends of the same TimeLog have succeeded one after the other; the
\* first returned its own timestamp, the record now holds the second's.
C12_Witness ==
  \E s, t \in Slots :
    /\ s # t
    /\ \A u \in {s, t} :
         /\ reqs[u].entitySetName = "TimeLogs" /\ reqs[u].action = "sendToStraTIME"
         /\ reqs[u].pc = "done" /\ reqs[u].code = 200
    /\ \A row \in reqs[s].result : row.sentAt = reqs[s].at
    /\ \A row \in reqs[t].result : row.sentAt = reqs[t].at /\ row.sentToStraTIME
    /\ reqs[s].at # reqs[t].at
    /\ \A row \in store["TimeLogs"] : row.sentAt = reqs[t].at

\* C13: sendToStraTIME on an existing ImputationPeriod is applied whatever the
\* status the call read: the handler goes on to its UPDATE, the UPDATE sets
\* sentToStraTIME, sentBy and sentAt and leaves every other column (status,
\* submittedAt, validatedBy, validatedAt) as stored, and the call succeeds.
C13_SendPeriodAnyStatus ==
  [][\A s \in Slots :
       (/\ reqs[s].entitySetName = "ImputationPeriods"
        /\ reqs[s].action = "sendToStraTIME")
         => /\ (GuardStep(s) /\ reqs[s].current # {}) => reqs'[s].pc = "update"
            /\ UpdateStep(s)
                 => store'["ImputationPeriods"] =
                      {IF row.ID = reqs[s].id
                         THEN [row EXCEPT !.sentToStraTIME = TRUE,
                                          !.sentBy = reqs[s].actor,
                                          !.sentAt = reqs[s].at]
                         ELSE row : row \in store["ImputationPeriods"]}
            /\ RereadStep(s)
                 => /\ reqs'[s].code = 200
                    /\ \A row \in reqs'[s].result :
                         row.sentToStraTIME /\ row.sentBy \in Actors]_vars

\* A send on a VALIDATED period that was never submitted through this service
\* has succeeded and returned it sent, with its status and audit columns as
\* they were.
C13_Witness ==
  \E s \in Slots :
    /\ reqs[s].entitySetName = "ImputationPeriods" /\ reqs[s].action = "sendToStraTIME"
    /\ reqs[s].pc = "done" /\ reqs[s].code = 200
    /\ Row(reqs[s].current).st = "VALIDATED"
    /\ \A row \in reqs[s].result :
         /\ row.status = "VALIDATED" /\ row.validatedBy = Null
         /\ row.submittedAt = NoTime /\ row.validatedAt = NoTime
         /\ row.sentToStraTIME /\ row.sentBy = reqs[s].actor
         /\ row.sentAt = reqs[s].at

\* The store has executed the INSERT of request s.
Inserted(s) == \E i \in 1..Len(crud[s].calls) : crud[s].calls[i] = "insert"

\* C14 as stated: whatever the interleaving of creates, no two persisted
\* tickets carry the same generated ticketCode (a code a client has put in by
\* an update is left aside).
C14_UniqueTicketCodes ==
  \A r1, r2 \in tables["Tickets"] :
    (r1.ticketCode = r2.ticketCode /\ r1.ticketCode \notin SuppliedCodes)
      => r1.ID = r2.ID

\* C15 as stated: no step changes the ticketCode of a stored ticket.
C15_TicketCodeImmutable ==
  [][\A row \in tables["Tickets"] :
       \A row2 \in tables["Tickets"]' :
         row2.ID = row.ID => row2.ticketCode = row.ticketCode]_vars

\* A field of the request data is missing: absent, or the empty string.
Lacks(data, f) == f \notin DOMAIN data \/ data[f] = ""

\* C16: a ticket CREATE whose data lacks projectId, title or nature is never
\* inserted: the request goes from the count to its end, ends with 400, and
\* the store has seen no INSERT from it and holds no row of it.
C16_MissingFieldNoInsert ==
  \A s \in CrudSlots :
    (/\ crud[s].op = "CREATE" /\ crud[s].entity = "Tickets"
     /\ \E f \in {"projectId", "title", "nature"} : Lacks(crud[s].given, f))
      => /\ crud[s].pc \in {"count", "done"}
         /\ ~Inserted(s)
         /\ RowsOf("Tickets", s) = {}
         /\ crud[s].pc = "done" => crud[s].code = 400

\* A create without nature has ended with 400 next to a create that was
\* inserted.
C16_Witness ==
  \E s, t \in CrudSlots :
    /\ crud[s].op = "CREATE" /\ crud[s].entity = "Tickets"
    /\ "nature" \notin DOMAIN crud[s].given
    /\ crud[s].pc = "done" /\ crud[s].code = 400
    /\ crud[t].op = "CREATE" /\ crud[t].entity = "Tickets"
    /\ crud[t].pc = "done" /\ crud[t].code = 201
    /\ RowsOf("Tickets", t) # {}

\* The structured fields of an entity.
FieldsOf(entity) == IF entity = "Tickets" THEN TicketFields ELSE ProjectFields

\* This step is the store executing the INSERT of request s.
InsertStep(s) == crud[s].pc = "insert" /\ crud'[s].pc = "done"

\* This step is the store executing the SELECT of READ request s.
ReadStep(s) == crud[s].pc = "read" /\ crud'[s].pc = "done"

\* C17: the codec round-trips lists. For every list v (of strings, up to the
\* greatest length), decoding the encoding of v gives v, with the ticket codec
\* and with the codec of the other entities, and the encoding is text. So a
\* record created with a structured field given as a list is persisted with
\* that field as the list's JSON text, the response carries the list, and a
\* READ of a row that holds a list's JSON text returns the list.
C17_CodecRoundTrip ==
  [][/\ \A v \in Lists :
          /\ serializeArray(v).type = "string"
          /\ deserializeArray(serializeArray(v)) = v
          /\ writeField(v).type = "string"
          /\ readField(writeField(v)) = v
     /\ \A s \in CrudSlots :
          InsertStep(s)
            => \A f \in FieldsOf(crud[s].entity) \cap DOMAIN crud[s].given :
                 crud[s].given[f].type = "array"
                   => /\ \A row \in RowsOf(crud[s].entity, s)' :
                           row[f] = Str(JSONstringify(crud[s].given[f]))
                      /\ crud'[s].result # {}
                      /\ \A res \in crud'[s].result : res[f] = crud[s].given[f]
     /\ \A s \in CrudSlots :
          ReadStep(s)
            => \A row \in RowsOf(crud[s].entity, crud[s].id) :
                 \A f \in FieldsOf(crud[s].entity), v \in Lists :
                   row[f] = Str(JSONstringify(v))
                     => /\ crud'[s].code = 200
                        /\ \A res \in crud'[s].result : res[f] = v]_vars

\* A ticket was created with tags ["a","b"], it is stored with the text
\* ["a","b"], and a READ of it has returned the list.
C17_Witness ==
  \E s, t \in CrudSlots :
    /\ crud[s].op = "CREATE" /\ crud[s].entity = "Tickets"
    /\ "tags" \in DOMAIN crud[s].given
    /\ crud[s].given.tags = Arr(<<"a", "b">>)
    /\ Inserted(s)
    /\ \A row \in RowsOf("Tickets", s) :
         row.tags = Str(<<"[", Lit("a"), ",", Lit("b"), "]">>)
    /\ crud[t].op = "READ" /\ crud[t].entity = "Tickets" /\ crud[t].id = s
    /\ crud[t].pc = "done" /\ crud[t].code = 200
    /\ crud[t].result # {}
    /\ \A res \in crud[t].result : res.tags = Arr(<<"a", "b">>)

\* Stored text that begins with '[' or '{' and is not JSON.
Malformed(v) ==
  /\ v.type = "string"
  /\ v.items # <<>>
  /\ Head(v.items) \in {"[", "{"}
  /\ ~JSONparse(v.items).ok

\* C18: a parse failure is never surfaced. A READ of a row that holds
\* malformed text beginning with '[' or '{' in a structured field ends with
\* success; the field comes back as the stored text, unchanged, for an entity
\* other than Tickets, and as the empty list for a ticket.
C18_ParseFailureSwallowed ==
  [][\A s \in CrudSlots :
       ReadStep(s)
         => \A row \in RowsOf(crud[s].entity, crud[s].id) :
              \A f \in FieldsOf(crud[s].entity) :
                Malformed(row[f])
                  => /\ crud'[s].code = 200
                     /\ crud'[s].result # {}
                     /\ \A res \in crud'[s].result :
                          res[f] = IF crud[s].entity = "Tickets"
                                     THEN Arr(<<>>) ELSE row[f]]_vars

\* A READ of a project whose techKeywords holds a list that is not closed has
\* returned the text as stored.
C18_Witness ==
  \E t \in CrudSlots :
    /\ crud[t].op = "READ" /\ crud[t].entity = "Projects"
    /\ crud[t].pc = "done" /\ crud[t].code = 200
    /\ \E row \in RowsOf("Projects", crud[t].id) :
         /\ row.techKeywords = Str(<<"[", Lit("a")>>)
         /\ crud[t].result = {row}

\* The request of slot s is an authenticate that has ended without a user.
AuthFailed(s) ==
  crud[s].op = "authenticate" /\ crud[s].pc = "done" /\ crud[s].code # 200

\* The email of a request as the handler compares it (trimmed, lower case)
\* belongs to an account with a password.
EmailKnown(s) == crud[s].data.email \in {Alice, Marc}

\* C19: authentication fails uniformly. Every failing authenticate (empty
\* email or password, unknown email, wrong password for a known email, right
\* password without an active user record) is rejected with 401 and the
\* message 'Invalid credentials' and returns no record, so two failures are
\* indistinguishable; and an authenticate succeeds only with the account's
\* own password and returns the active user with that email.
C19_UniformFailure ==
  /\ \A s \in CrudSlots :
       AuthFailed(s)
         => /\ crud[s].code = 401
            /\ crud[s].message = "Invalid credentials"
            /\ crud[s].result = {}
  /\ \A s, t \in CrudSlots :
       (AuthFailed(s) /\ AuthFailed(t))
         => <<crud[s].code, crud[s].message, crud[s].result>>
              = <<crud[t].code, crud[t].message, crud[t].result>>
  /\ \A s \in CrudSlots :
       (crud[s].op = "authenticate" /\ crud[s].pc = "done" /\ crud[s].code = 200)
         => /\ EmailKnown(s)
            /\ crud[s].data.password
                 = (IF crud[s].data.email = Alice THEN <<"p", "1">> ELSE <<"q", "2">>)
            /\ \E u \in tables["Users"] : u.active /\ crud[s].result = {u}

\* Two failures side by side: an unknown email, and a known email with its
\* right password but no active user record.
C19_Witness ==
  \E s, t \in CrudSlots :
    /\ AuthFailed(s) /\ AuthFailed(t)
    /\ crud[s].data.email = Zed /\ crud[s].data.password # <<>>
    /\ crud[t].data.email = Marc /\ crud[t].data.password = <<"q", "2">>
    /\ crud[t].calls = <<"find">>

\* C20: every workflow action is bound to a record of its entity. The service
\* declares validate and reject on Imputations and on ImputationPeriods, and
\* submit and sendToStraTIME as bound actions; it declares no validate or
\* reject at service level; and every dispatched workflow action runs on the
\* entity it is bound to and reaches the store only with the key of one record.
C20_ActionsAreBound ==
  /\ \A e \in {"Imputations", "ImputationPeriods"} :
       \A a \in {"validate", "reject"} : [name |-> a, on |-> e] \in ServiceActions
  /\ [name |-> "submit", on |-> "ImputationPeriods"] \in ServiceActions
  /\ \E e \in EntitySets : [name |-> "sendToStraTIME", on |-> e] \in ServiceActions
  /\ \A d \in ServiceActions :
       d.name \in {"validate", "reject", "submit", "sendToStraTIME"}
         => d.on \in EntitySets
  /\ \A s \in Slots :
       reqs[s].pc \notin {"idle", "gone"}
         => /\ reqs[s].entitySetName \in EntitySets
            /\ [name |-> reqs[s].action, on |-> reqs[s].entitySetName]
                 \in ServiceActions
            /\ (reqs[s].pc # "done" \/ reqs[s].calls # <<>>) => reqs[s].id \in Ids

\* A validate that names a record has reached the store, and a reject sent
\* without a key has been turned away before any store call.
C20_Witness ==
  \E s, t \in Slots :
    /\ reqs[s].action = "validate" /\ reqs[s].id = "r1"
    /\ Wrote(s)
    /\ reqs[t].action = "reject" /\ reqs[t].id = Null
    /\ reqs[t].pc = "done" /\ reqs[t].code = 400 /\ reqs[t].calls = <<>>

\* Request s is the given action on Imputations and has read the given status.
ImputationRead(s, action, st) ==
  /\ reqs[s].entitySetName = "Imputations" /\ reqs[s].action = action
  /\ reqs[s].current # {}
  /\ Row(reqs[s].current).st = st

\* C21: a reject on an Imputation read as SUBMITTED passes the guard, and its
\* UPDATE stores REJECTED with the call's actor as validatedBy and the call's
\* timestamp (not null) as validatedAt, and the call succeeds. A reject that
\* then reads the record as REJECTED ends with 409 and none of its steps
\* changes the stored record; a validate that reads it as REJECTED passes the
\* guard and stores VALIDATED.
C21_RejectThenRejectOrValidate ==
  [][\A s \in Slots :
       /\ ImputationRead(s, "reject", "SUBMITTED")
            => /\ GuardStep(s) => reqs'[s].pc = "update"
               /\ UpdateStep(s)
                    => \A row \in SelectOne("Imputations", reqs[s].id)' :
                         /\ row.validationStatus = "REJECTED"
                         /\ row.validatedBy
                              = (IF reqs[s].actor = Absent THEN Null ELSE reqs[s].actor)
                         /\ row.validatedAt = reqs[s].at
                         /\ row.validatedAt # NoTime
               /\ RereadStep(s) => reqs'[s].code = 200
       /\ ImputationRead(s, "reject", "REJECTED")
            => /\ GuardStep(s) => (reqs'[s].pc = "done" /\ reqs'[s].code = 409)
               /\ reqs'[s] # reqs[s] => store' = store
               /\ reqs[s].pc \in {"guard", "done"}
       /\ ImputationRead(s, "validate", "REJECTED")
            => /\ GuardStep(s) => reqs'[s].pc = "update"
               /\ UpdateStep(s)
                    => \A row \in SelectOne("Imputations", reqs[s].id)' :
                         row.validationStatus = "VALIDATED"
               /\ RereadStep(s) => reqs'[s].code = 200]_vars

\* A reject with an actor has succeeded on a SUBMITTED imputation; a second
\* reject, sent after the first had returned, has ended with 409 and the
\* record is as the first reject wrote it.
C21_Witness ==
  \E s, t \in Slots :
    /\ ImputationRead(s, "reject", "SUBMITTED")
    /\ reqs[s].pc = "done" /\ reqs[s].code = 200 /\ reqs[s].actor \in Actors
    /\ ImputationRead(t, "reject", "REJECTED")
    /\ reqs[t].pc = "done" /\ reqs[t].code = 409
    /\ \A row \in store["Imputations"] :
         /\ row.validationStatus = "REJECTED"
         /\ row.validatedBy = reqs[s].actor
         /\ row.validatedAt = reqs[s].at
         /\ reqs[s].result = {row}

\* Request s is the given action on ImputationPeriods and has read the given status.
PeriodRead(s, action, st) ==
  /\ reqs[s].entitySetName = "ImputationPeriods" /\ reqs[s].action = action
  /\ reqs[s].current # {}
  /\ Row(reqs[s].current).st = st

\* C22: for an ImputationPeriod created in DRAFT, a validate or reject that
\* reads the period in DRAFT ends with 409; when a validate or reject writes,
\* a submit has written before it, so a period in VALIDATED or REJECTED has
\* submittedAt set; a submit that reads the period in VALIDATED ends with 409.
C22_DraftPeriodNeedsSubmit ==
  /\ [](\A row \in store["ImputationPeriods"] :
          row.status \in {"VALIDATED", "REJECTED"} => row.submittedAt # NoTime)
  /\ [][\A s \in Slots :
          /\ (PeriodRead(s, "validate", "DRAFT") \/ PeriodRead(s, "reject", "DRAFT"))
               => /\ GuardStep(s) => (reqs'[s].pc = "done" /\ reqs'[s].code = 409)
                  /\ reqs[s].pc \in {"guard", "done"}
          /\ ( /\ UpdateStep(s)
               /\ reqs[s].entitySetName = "ImputationPeriods"
               /\ reqs[s].action \in {"validate", "reject"} )
               => \A row \in store["ImputationPeriods"] :
                    row.submittedAt # NoTime /\ row.status # "DRAFT"
          /\ PeriodRead(s, "submit", "VALIDATED")
               => /\ GuardStep(s) => (reqs'[s].pc = "done" /\ reqs'[s].code = 409)
                  /\ reqs[s].pc \in {"guard", "done"}]_vars

\* The period, created in DRAFT, has been submitted and then validated, and a
\* later submit has been refused with 409.
C22_Witness ==
  \E s \in Slots :
    /\ PeriodRead(s, "submit", "VALIDATED")
    /\ reqs[s].pc = "done" /\ reqs[s].code = 409
    /\ lastGuarded["ImputationPeriods"].action = "validate"
    /\ \A row \in store["ImputationPeriods"] :
         row.status = "VALIDATED" /\ row.submittedAt # NoTime
    /\ store["ImputationPeriods"] # {}

\* The entity sets that carry a status.
StatusEntities == {"Imputations", "ImputationPeriods"}

\* C23: no action's UPDATE writes the status DRAFT, and in every step, of any
\* interleaving of requests, an Imputation or ImputationPeriod whose status is
\* not DRAFT keeps a status that is not DRAFT.
C23_NeverBackToDraft ==
  [][/\ \A s \in Slots :
          (UpdateStep(s) /\ reqs[s].entitySetName \in StatusEntities)
            => LET f == statusField(reqs[s].entitySetName) IN
                 f \in DOMAIN reqs[s].changes => reqs[s].changes[f] # "DRAFT"
     /\ \A e \in StatusEntities :
          \A row \in store[e] :
            row[statusField(e)] # "DRAFT"
              => \A written \in SelectOne(e, row.ID)' : written[statusField(e)] # "DRAFT"]_vars

\* A period that is no longer in DRAFT has been written again: a submit read
\* it as REJECTED and has written SUBMITTED.
C23_Witness ==
  \E s \in Slots :
    /\ PeriodRead(s, "submit", "REJECTED")
    /\ Wrote(s)
    /\ \A row \in store["ImputationPeriods"] : row.status = "SUBMITTED"

\* Request s is the given action on Imputations and has returned the updated record.
ImputationSucceeded(s, action) ==
  /\ reqs[s].entitySetName = "Imputations" /\ reqs[s].action = action
  /\ reqs[s].pc = "done" /\ reqs[s].code = 200

\* C24: when the requests on one Imputation do not overlap, no two validate
\* requests succeed and no two reject requests succeed. Over any number of
\* requests: a validate writes only when the stored status is not VALIDATED
\* and VALIDATED is never left; a reject writes only when the stored status is
\* DRAFT or SUBMITTED, and a status that is REJECTED or VALIDATED stays one of
\* the two; so each of the two actions writes at most once.
C24_AtMostOnceEach ==
  /\ [](\A s, t \in Slots :
          s # t => /\ ~(ImputationSucceeded(s, "validate") /\ ImputationSucceeded(t, "validate"))
                   /\ ~(ImputationSucceeded(s, "reject") /\ ImputationSucceeded(t, "reject")))
  /\ [][/\ \A s \in Slots :
             (UpdateStep(s) /\ reqs[s].entitySetName = "Imputations")
               => /\ reqs[s].action = "validate"
                       => StoredStatus("Imputations") # "VALIDATED"
                  /\ reqs[s].action = "reject"
                       => StoredStatus("Imputations") \in {"DRAFT", "SUBMITTED"}
        /\ \A row \in store["Imputations"] :
             \A written \in SelectOne("Imputations", row.ID)' :
               /\ row.validationStatus = "VALIDATED"
                    => written.validationStatus = "VALIDATED"
               /\ row.validationStatus = "REJECTED"
                    => written.validationStatus \in {"REJECTED", "VALIDATED"}]_vars

\* A validate has succeeded on the imputation and a second validate, sent
\* after the first had returned, has been refused with 409.
C24_Witness ==
  \E s, t \in Slots :
    /\ ImputationSucceeded(s, "validate")
    /\ reqs[t].entitySetName = "Imputations" /\ reqs[t].action = "validate"
    /\ reqs[t].pc = "done" /\ reqs[t].code = 409
    /\ StoredStatus("Imputations") = "VALIDATED"

\* Request s is the given kind of action on ImputationPeriods and its UPDATE
\* has been applied.
PeriodWrote(s, guarded) ==
  /\ reqs[s].entitySetName = "ImputationPeriods"
  /\ (reqs[s].action # "sendToStraTIME") = guarded
  /\ Wrote(s)

\* The columns a sendToStraTIME writes.
SentColumns == {"sentToStraTIME", "sentBy", "sentAt"}

\* C25: when a sendToStraTIME and a guarded action, the only two requests,
\* have both written the same ImputationPeriod, in either order and however
\* their steps interleave, the record has sentToStraTIME = true with the
\* sentBy and sentAt of the send, and the status and audit columns of the
\* guarded action's change-set. In every step, the UPDATE of a send leaves
\* every column but the three sent columns as stored, and the UPDATE of a
\* guarded action leaves the three sent columns as stored.
C25_SendAndGuardedBothKept ==
  /\ [](\A s, t \in Slots :
          ( /\ PeriodWrote(s, FALSE) /\ PeriodWrote(t, TRUE) /\ reqs[s].id = reqs[t].id
            /\ \A u \in Slots \ {s, t} : reqs[u].pc = "idle" )
            => \A row \in SelectOne("ImputationPeriods", reqs[s].id) :
                 /\ row.sentToStraTIME = TRUE
                 /\ row.sentBy = reqs[s].actor
                 /\ row.sentAt = reqs[s].at
                 /\ \A f \in DOMAIN reqs[t].changes : row[f] = reqs[t].changes[f]
                 /\ row.status = Target("ImputationPeriods", reqs[t].action))
  /\ [][\A s \in Slots :
          (UpdateStep(s) /\ reqs[s].entitySetName = "ImputationPeriods")
            => \A row \in SelectOne("ImputationPeriods", reqs[s].id) :
                 \A written \in SelectOne("ImputationPeriods", reqs[s].id)' :
                   \A f \in DOMAIN row :
                     IF reqs[s].action = "sendToStraTIME"
                       THEN f \notin SentColumns => written[f] = row[f]
                       ELSE f \in SentColumns => written[f] = row[f]]_vars

\* A send and a guarded action on the same period are both between their
\* UPDATE and their second read.
C25_Witness ==
  \E s, t \in Slots :
    /\ PeriodWrote(s, FALSE) /\ PeriodWrote(t, TRUE)
    /\ reqs[s].pc = "reread" /\ reqs[t].pc = "reread"
    /\ reqs[s].id = reqs[t].id
    /\ SelectOne("ImputationPeriods", reqs[s].id) # {}

\* C26: the stored status of every Imputation and ImputationPeriod, created
\* with a status among DRAFT, SUBMITTED, VALIDATED and REJECTED, is one of
\* these four after every step.
C26_StatusStaysInSet ==
  \A e \in StatusEntities :
    \A row \in store[e] : row[statusField(e)] \in Statuses

\* Guarded actions have written the status of a record: two of them have
\* applied their UPDATE to the same record.
C26_Witness ==
  \E s, t \in Slots :
    /\ s # t
    /\ reqs[s].entitySetName \in StatusEntities
    /\ reqs[t].entitySetName = reqs[s].entitySetName
    /\ HasRule(reqs[s].action, reqs[s].entitySetName) /\ Wrote(s)
    /\ HasRule(reqs[t].action, reqs[t].entitySetName) /\ Wrote(t)
    /\ reqs[s].action # reqs[t].action
    /\ store[reqs[s].entitySetName] # {}

\* The columns the claim gives to each guarded action.
OwnColumns(entitySetName, action) ==
  IF action = "submit" THEN {"status", "submittedAt"}
  ELSE {statusField(entitySetName), "validatedBy", "validatedAt"}

RECURSIVE Updates(_)
Updates(calls) ==
  IF calls = <<>> THEN 0
  ELSE (IF Head(calls) = "update" THEN 1 ELSE 0) + Updates(Tail(calls))

\* Request s is running: dispatched with an id and not yet answered.
Running(s) == reqs[s].pc \in {"fetch", "guard", "update", "reread"}

\* C28: a request issues at most one UPDATE and at most three store calls;
\* an answered request has one outcome, which is the updated record (200),
\* 400, 404 or 409 when none of its store calls failed, and is not revised;
\* a failing store call ends the request with an error and no further call;
\* and, the store answering every call, every running request is answered.
C28_CompletesOnce ==
  /\ [](\A s \in Slots :
          /\ Updates(reqs[s].calls) <= 1
          /\ Len(reqs[s].calls) <= 3
          /\ reqs[s].pc = "done"
               => /\ reqs[s].code \in {200, 400, 404, 409, 500}
                  /\ reqs[s].code = 200 <=> reqs[s].result # {}
                  /\ reqs[s].code = 200 => reqs[s].calls = <<"get", "update", "get">>)
  /\ [][\A s \in Slots :
          /\ reqs[s].pc = "done" => (reqs'[s] = reqs[s] \/ reqs'[s].pc = "gone")
          /\ (Running(s) /\ reqs'[s].calls = Append(reqs[s].calls, "update"))
               => reqs[s].calls = <<"get">>
          /\ (Running(s) /\ reqs'[s].pc = "done" /\ reqs'[s].code = 500)
               => /\ store' = store
                  /\ reqs[s].pc # "guard"]_vars
  /\ \A s \in Slots : Running(s) ~> reqs[s].pc = "done"

\* One request has been ended by the failure of its UPDATE and another has
\* returned the updated record.
C28_Witness ==
  \E s, t \in Slots :
    /\ reqs[s].pc = "done" /\ reqs[s].code = 500
    /\ reqs[s].calls = <<"get", "update">>
    /\ reqs[t].pc = "done" /\ reqs[t].code = 200 /\ reqs[t].result # {}

\* Request s is a create on Tickets.
TicketCreate(s) == crud[s].op = "CREATE" /\ crud[s].entity = "Tickets"

\* The tickets stored with a code of the current year.
TicketsOfYear ==
  {row \in tables["Tickets"] :
     Len(row.ticketCode) >= 2 /\ row.ticketCode[1] = "TK" /\ row.ticketCode[2] = CurrentYear}

\* The code TK-<current year>-000<n>, for n below ten.
CodeNumbered(n) == <<"TK", CurrentYear, 0, 0, 0, n>>

C30_NthTicketNumberedN ==
  /\ [][\A s \in CrudSlots :
          (TicketCreate(s) /\ crud[s].pc = "insert" /\ crud'[s].pc # "insert")
            => \A row \in tables'["Tickets"] \ tables["Tickets"] :
                 row.ticketCode = CodeNumbered(Cardinality(tables["Tickets"]) + 1)]_vars
  /\ [](\A r1, r2 \in tables["Tickets"] : r1.ticketCode = r2.ticketCode => r1.ID = r2.ID)

\* This step is beforeCreate of request s resuming with the count and
\* returning without a recorded error.
CountStep(s) == TicketCreate(s) /\ crud[s].pc = "count" /\ crud'[s].pc = "insert"

\* The request of slot s carries field f with a value other than v.
Supplies(s, f, v) == f \in DOMAIN crud[s].given /\ crud[s].given[f] # v

\* C31: when beforeCreate returns, the ticket's status is the one supplied,
\* and NEW when none (or the empty text) is supplied; effortHours and
\* estimationHours are the values supplied, and 0 when null or absent;
\* createdAt is the timestamp supplied, and the time of the call when none is
\* supplied; updatedAt is the time of the call, whatever is supplied. The
\* INSERT stores the ticket with these values.
C31_DefaultsKeepSupplied ==
  [][\A s \in CrudSlots :
       /\ CountStep(s)
            => LET d == crud'[s].data IN
                 /\ d.status = IF Supplies(s, "status", "") THEN crud[s].given.status
                               ELSE "NEW"
                 /\ \A f \in {"effortHours", "estimationHours"} :
                      d[f] = IF Supplies(s, f, JsNull) THEN crud[s].given[f] ELSE Num(0)
                 /\ d.createdAt = IF Supplies(s, "createdAt", NoTime)
                                    THEN crud[s].given.createdAt ELSE clock
                 /\ d.updatedAt = clock
       /\ (TicketCreate(s) /\ InsertStep(s))
            => /\ RowsOf("Tickets", s)' # {}
               /\ \A row \in RowsOf("Tickets", s)' :
                    \A f \in {"status", "effortHours", "estimationHours",
                              "createdAt", "updatedAt"} :
                      row[f] = crud[s].data[f]]_vars

\* One ticket was created with effortHours 5 and nothing else to default: it
\* is stored with 5 hours, status NEW, and both timestamps at a later reading
\* of the clock. Another was created with a createdAt and an updatedAt of the
\* client's: the createdAt is stored, the updatedAt is not.
C31_Witness ==
  \E s, t \in CrudSlots :
    /\ TicketCreate(s) /\ crud[s].pc = "done" /\ crud[s].code = 201
    /\ Supplies(s, "effortHours", JsNull)
    /\ \E row \in RowsOf("Tickets", s) :
         /\ row.effortHours = Num(5) /\ row.estimationHours = Num(0)
         /\ row.status = "NEW"
         /\ row.createdAt = row.updatedAt /\ row.createdAt > NoTime + 1
    /\ TicketCreate(t) /\ crud[t].pc \in {"insert", "done"}
    /\ Supplies(t, "createdAt", NoTime)
    /\ crud[t].data.createdAt = SuppliedTime
    /\ crud[t].data.updatedAt <= MaxClock

\* This step is an UPDATE on Tickets arriving as request s (beforeUpdate runs).
UpdateArrives(s) ==
  crud[s].pc = "idle" /\ crud'[s].pc = "write" /\ crud'[s].entity = "Tickets"

\* This step is the store executing the UPDATE of request s on Tickets.
WriteStep(s) ==
  crud[s].pc = "write" /\ crud'[s].pc = "done" /\ crud[s].entity = "Tickets"

\* The text of the empty list.
EmptyListText == Str(<<"[", "]">>)

\* C32: on create, each of history, tags and documentationObjectIds leaves
\* beforeCreate as text: the JSON text of the list when a list is supplied,
\* the text itself when text is supplied, the text of the empty list when the
\* field is absent, null or an object. On update, beforeUpdate turns a
\* supplied list into its JSON text and leaves any other supplied value as it
\* is (text is not parsed); it adds no field but updatedAt, which is the time
\* of the call; it records no error, and the UPDATE of an existing ticket
\* succeeds and stores the fields of the request and no other.
C32_CodecIntoStore ==
  [][\A s \in CrudSlots :
       /\ CountStep(s)
            => \A f \in TicketFields :
                 LET d == crud'[s].data[f]
                     g == crud[s].given
                 IN /\ d.type = "string"
                    /\ d = IF f \notin DOMAIN g THEN EmptyListText
                           ELSE IF g[f].type = "array" THEN Str(JSONstringify(g[f]))
                           ELSE IF g[f].type = "string" THEN g[f]
                           ELSE EmptyListText
       /\ UpdateArrives(s)
            => LET d == crud'[s].data
                   g == crud'[s].given
               IN /\ DOMAIN d = DOMAIN g \cup {"updatedAt"}
                  /\ d.updatedAt = clock
                  /\ ~crud'[s].errors
                  /\ \A f \in DOMAIN g \ {"updatedAt"} :
                       d[f] = IF f \in TicketFields /\ g[f].type = "array"
                                THEN Str(JSONstringify(g[f])) ELSE g[f]
       /\ (WriteStep(s) /\ RowsOf("Tickets", crud[s].id) # {})
            => /\ crud'[s].code = 200
               /\ \A row \in RowsOf("Tickets", crud[s].id) :
                    \E written \in RowsOf("Tickets", crud[s].id)' :
                      \A f \in DOMAIN row :
                        written[f] = IF f \in DOMAIN crud[s].data
                                       THEN crud[s].data[f] ELSE row[f]]_vars

\* A ticket created with tags given as text holds that text; an update with
\* an empty title has then succeeded, the title is empty, the tags are as
\* they were and updatedAt is later than createdAt.
C32_Witness ==
  \E s, t \in CrudSlots :
    /\ TicketCreate(s) /\ crud[s].pc = "done" /\ crud[s].code = 201
    /\ "tags" \in DOMAIN crud[s].given
    /\ crud[s].given.tags = Str(<<"[", Lit("a")>>)
    /\ crud[t].op = "UPDATE" /\ crud[t].id = s /\ crud[t].pc = "done" /\ crud[t].code = 200
    /\ crud[t].given = [f \in {"title"} |-> ""]
    /\ \E row \in RowsOf("Tickets", s) :
         /\ row.title = ""
         /\ row.tags = Str(<<"[", Lit("a")>>)
         /\ row.history = EmptyListText
         /\ row.updatedAt > row.createdAt

\* The list a stored value of a ticket's structured field is read as: the
\* list itself, the list that well-formed text beginning with '[' denotes,
\* and the empty list for anything else.
ReadAsList(v) ==
  IF v.type = "array" THEN v
  ELSE IF v.type = "string" /\ NoWs(v.items) # <<>> /\ Head(NoWs(v.items)) = "["
          /\ JSONparse(v.items).ok
    THEN JSONparse(v.items).value
  ELSE Arr(<<>>)

\* Values a ticket's structured field can hold when the read hook runs.
HookInputs == Lists \cup FieldValues \cup {JsUndefined}

\* C33: every ticket row a request returns (after READ, CREATE or UPDATE)
\* has history, tags and documentationObjectIds as lists. A list stays as it
\* is, well-formed text beginning with '[' becomes the list it denotes, and
\* null, an absent value, an object, text beginning with '{' and malformed
\* text become the empty list; each field a READ returns is the stored field
\* read this way.
C33_ReadHookYieldsLists ==
  /\ [](/\ \A v \in HookInputs :
             /\ deserializeArray(v).type = "array"
             /\ deserializeArray(v) = ReadAsList(v)
             /\ v.type = "array" => deserializeArray(v) = v
             /\ (v.type \in {"null", "undefined", "object"} \/ Malformed(v)
                   \/ (v.type = "string" /\ StartsWith(v.items, "{")))
                  => deserializeArray(v) = Arr(<<>>)
        /\ \A s \in CrudSlots :
             crud[s].entity = "Tickets"
               => \A res \in crud[s].result :
                    \A f \in TicketFields : res[f].type = "array")
  /\ [][\A s \in CrudSlots :
          (crud[s].entity = "Tickets" /\ ReadStep(s) /\ crud'[s].code = 200)
            => /\ crud'[s].result # {}
               /\ \A res \in crud'[s].result :
                    \E row \in RowsOf("Tickets", res.ID)' :
                      \A f \in TicketFields : res[f] = ReadAsList(row[f])]_vars

\* A ticket was created with tags given as the text {} and a READ of it has
\* returned tags, history and documentationObjectIds as empty lists.
C33_Witness ==
  \E s, t \in CrudSlots :
    /\ TicketCreate(s) /\ Inserted(s)
    /\ \E row \in RowsOf("Tickets", s) : row.tags = Str(<<"{", "}">>)
    /\ crud[t].op = "READ" /\ crud[t].entity = "Tickets" /\ crud[t].id = s
    /\ crud[t].pc = "done" /\ crud[t].code = 200
    /\ crud[t].result # {}
    /\ \A res \in crud[t].result :
         \A f \in TicketFields : res[f] = Arr(<<>>)

\* Text that JSON.parse accepts.
WellFormed(v) == v.type = "string" /\ JSONparse(v.items).ok

GeneratedForm(code) ==
  /\ Len(code) = 6
  /\ code[1] = "TK" /\ code[2] = CurrentYear
  /\ \A i \in 3..6 : code[i] \in 0..9

\* C35: beforeCreate assigns the generated code whatever the request
\* carries: when it returns, the request's ticketCode is the code generated
\* from the count, of the form TK-<current year>-<suffix>, and not the code
\* the request supplied; the INSERT stores the ticket with that code.
C35_GeneratedCodeAssigned ==
  [][\A s \in CrudSlots :
       /\ CountStep(s)
            => /\ GeneratedForm(crud'[s].data.ticketCode)
               /\ crud'[s].data.ticketCode = CodeNumbered(crud'[s].count + 1)
               /\ "ticketCode" \in DOMAIN crud[s].given
                    => crud'[s].data.ticketCode # crud[s].given.ticketCode
       /\ (TicketCreate(s) /\ InsertStep(s))
            => /\ RowsOf("Tickets", s)' # {}
               /\ \A row \in RowsOf("Tickets", s)' :
                    /\ GeneratedForm(row.ticketCode)
                    /\ row.ticketCode = crud[s].data.ticketCode
               /\ \A res \in crud'[s].result : GeneratedForm(res.ticketCode)]_vars

\* Two creates carried a ticketCode of their own, one of them of the
\* generator's form; both tickets were returned with generated codes.
C35_Witness ==
  \E s, t \in CrudSlots :
    /\ TicketCreate(s) /\ crud[s].pc = "done" /\ crud[s].code = 201
    /\ "ticketCode" \in DOMAIN crud[s].given /\ crud[s].given.ticketCode = <<"X">>
    /\ TicketCreate(t) /\ crud[t].pc = "done" /\ crud[t].code = 201
    /\ "ticketCode" \in DOMAIN crud[t].given
    /\ GeneratedForm(crud[t].given.ticketCode)
    /\ \A res \in crud[s].result \cup crud[t].result :
         /\ GeneratedForm(res.ticketCode)
         /\ res.ticketCode \notin SuppliedCodes
    /\ crud[s].result # {} /\ crud[t].result # {}

====
